---- MODULE Spec2Model ----
(***************************************************************************)
(* Model of the live KPI worker (python-worker/live_worker.py): the minute *)
(* window aggregator, the cumulative totals tracker, the program lifecycle *)
(* (startup recovery, program switch) and the poll loop that drives them.  *)
(*                                                                         *)
(* Time is counted in ticks; TicksPerMinute ticks make one minute.  Every  *)
(* timestamp of the store (ISO strings in the source, compared as strings  *)
(* or datetimes) is a tick count.  Weights are whole grams.  A fill        *)
(* fraction is a fixed-point number: FullFill units are the float 1.0.     *)
(***************************************************************************)
EXTENDS Integers, Sequences, FiniteSets, TLC

\* ------------------------------------------------------------------ bounds
\* The wall clock stops at MaxTime; at most MaxPieces pieces and MaxBatches
\* batches are written by ingestion while the worker runs.
MaxTime == 7
MaxPieces == 2
MaxBatches == 2
\* batches of the dwell scenarios
MaxDwellBatches == 4

\* One minute, in ticks (the sleep of the loop and the floor-to-minute key).
TicksPerMinute == 2
\* The worker process starts at this tick; the store's history lies before it.
StartTime == 3
\* The first piece poll looks back one second: less than one tick.
FirstPollLookback == 0
\* The float 1.0 of a fill fraction, in fixed-point units.
FullFill == 1000
\* The delay used when the configuration list wraps around (180 minutes).
LoopBackDelay == 180 * TicksPerMinute

\* SQL NULL / Python None for a timestamp, an id or a delay.
NULL == 0 - 1
\* float('inf'): the switch delay of a single-configuration list.
INF == 1000000 * 1000

Gates == 0 .. 2
PieceWeights == {3}
\* The <<weight_g, pieces>> of the batches ingestion completes.
BatchKinds == {<<6, 2>>, <<2, 2>>}

\* ----------------------------------------------------------------- helpers
Max(a, b) == IF a >= b THEN a ELSE b

\* The mutation of Giveaway without the clamp at zero.
GiveawayUnclamped(w_actual, w_target) == w_actual - w_target

\* w_give = max(0.0, w_actual - w_target): the same clamp in process_m3_kpis,
\* process_m4_totals and calculate_and_write_program_totals.
Giveaway(w_actual, w_target) == Max(0, w_actual - w_target)

\* dict[k] = v
Put(f, k, v) == [x \in (DOMAIN f) \cup {k} |-> IF x = k THEN v ELSE f[x]]

\* dict.get(k, d)
Get(f, k, d) == IF k \in DOMAIN f THEN f[k] ELSE d

RECURSIVE SeqSum(_)
SeqSum(s) == IF s = <<>> THEN 0 ELSE Head(s) + SeqSum(Tail(s))

RECURSIVE SetToSeq(_)
\* A set of integers as the ascending sequence of its elements.
SetToSeq(S) ==
    IF S = {} THEN <<>>
    ELSE LET m == CHOOSE x \in S : \A y \in S : x <= y
         IN  <<m>> \o SetToSeq(S \ {m})

\* datetime.replace(second=0, microsecond=0)
MinuteBucket(t) == t - (t % TicksPerMinute)

\* ---------------------------------------------------------- recipe catalog
\* A recipe name R_x_y_xx_yy_xxx_yyy, already split at "_".
RW == <<"R", "1", "9", "4", "0", "NA", "NA">>
RX == <<"R", "2", "9", "0", "0", "exact", "2">>
RM == <<"R", "2", "9", "0", "0", "min", "2">>
\* Further policies: no weight bound, a 1000 g bound, exact(10) and
\* atLeast(10) with 50 g pieces.
RW0 == <<"R", "1", "9", "0", "0", "NA", "NA">>
RK == <<"R", "1", "9", "1000", "0", "NA", "NA">>
RX10 == <<"R", "50", "9", "0", "0", "exact", "10">>
RM10 == <<"R", "50", "9", "0", "0", "min", "10">>
\* A stored recipe whose name does not parse: R_x_9_4_0_NA_NA.
RBad == <<"R", "x", "9", "4", "0", "NA", "NA">>

\* int(): the decimal strings the model uses; anything else raises ValueError.
IntOf == [s \in {"0", "1", "2", "4", "9", "10", "50", "1000"} |->
            CASE s = "0" -> 0 [] s = "1" -> 1 [] s = "2" -> 2
              [] s = "4" -> 4 [] s = "9" -> 9 [] s = "10" -> 10
              [] s = "50" -> 50 [] s = "1000" -> 1000]
IsInt(s) == s \in DOMAIN IntOf

\* RecipeSpec with every numeric field 0 and no count policy: what both
\* parsers fall back to when the name does not parse.
UnparsedSpec(id, name) ==
    [recipe_id |-> id, recipe_name |-> name, piece_min |-> 0, piece_max |-> 0,
     batch_min |-> 0, batch_max |-> 0, bc_type |-> "None", bc_val |-> NULL]

\* RecipeSpec.from_db_row
from_db_row(id, name) ==
    IF /\ Len(name) >= 7
       /\ \A i \in 2 .. 5 : IsInt(name[i])
       /\ (name[7] \in {"NA", "0", ""} \/ IsInt(name[7]))
    THEN [recipe_id |-> id, recipe_name |-> name,
          piece_min |-> IntOf[name[2]], piece_max |-> IntOf[name[3]],
          batch_min |-> IntOf[name[4]], batch_max |-> IntOf[name[5]],
          bc_type |-> IF name[6] = "NA" THEN "None" ELSE name[6],
          bc_val |-> IF name[7] \in {"NA", "0", ""} THEN NULL ELSE IntOf[name[7]]]
    ELSE UnparsedSpec(id, name)

\* The name parse inside calculate_and_write_program_totals:
\* exactly seven parts, int(float(yyy)) for the count value.
ParseTotalsSpec(id, name) ==
    IF /\ Len(name) = 7
       /\ \A i \in 2 .. 5 : IsInt(name[i])
       /\ (name[7] \in {"NA", ""} \/ IsInt(name[7]))
    THEN [recipe_id |-> id, recipe_name |-> name,
          piece_min |-> IntOf[name[2]], piece_max |-> IntOf[name[3]],
          batch_min |-> IntOf[name[4]], batch_max |-> IntOf[name[5]],
          bc_type |-> IF name[6] = "NA" THEN "None" ELSE name[6],
          bc_val |-> IF name[7] \in {"NA", ""} THEN NULL ELSE IntOf[name[7]]]
    ELSE UnparsedSpec(id, name)

\* `bc_type in ('exact', 'min') and bc_val`: None and 0 are both falsy.
IsCountBased(r) == r.bc_type \in {"exact", "min"} /\ r.bc_val # NULL /\ r.bc_val # 0

\* ------------------------------------------------- filled-batch evaluator
\* The mutation of M4Fill that never exceeds a full batch.
M4FillClamped(r, weight, piece_count) ==
    IF IsCountBased(r)
    THEN IF piece_count >= r.bc_val THEN FullFill
         ELSE (piece_count * FullFill) \div r.bc_val
    ELSE IF r.batch_min <= 0 \/ weight >= r.batch_min THEN FullFill
         ELSE (weight * FullFill) \div r.batch_min

\* process_m4_totals: the fill fraction of one batch, in FullFill units.
M4Fill(r, weight, piece_count) ==
    IF IsCountBased(r)
    THEN IF r.bc_type = "exact"
         THEN IF piece_count = r.bc_val THEN FullFill
              ELSE (piece_count * FullFill) \div r.bc_val
         ELSE IF piece_count >= r.bc_val THEN FullFill
              ELSE (piece_count * FullFill) \div r.bc_val
    ELSE IF r.batch_min <= 0 THEN FullFill
         ELSE IF weight >= r.batch_min THEN FullFill
              ELSE (weight * FullFill) \div r.batch_min

\* The mutation of M4Target that takes the batch weight as its target.
M4TargetIsWeight(r, weight, piece_count) == weight

\* process_m4_totals: the target weight of one batch, in grams.
M4Target(r, weight, piece_count) ==
    IF IsCountBased(r)
    THEN (M4Fill(r, weight, piece_count) * (r.bc_val * r.piece_min)) \div FullFill
    ELSE IF r.batch_min <= 0 THEN weight
         ELSE (M4Fill(r, weight, piece_count) * r.batch_min) \div FullFill

\* process_m3_kpis: the target weight of one batch (its own copy of the rule).
M3Target(r, weight, piece_count) ==
    IF IsCountBased(r)
    THEN LET fill == IF r.bc_type = "exact"
                     THEN IF piece_count = r.bc_val THEN FullFill
                          ELSE (piece_count * FullFill) \div r.bc_val
                     ELSE IF piece_count >= r.bc_val THEN FullFill
                          ELSE (piece_count * FullFill) \div r.bc_val
         IN  (fill * (r.bc_val * r.piece_min)) \div FullFill
    ELSE IF r.batch_min <= 0 THEN weight
         ELSE LET fill == IF weight >= r.batch_min THEN FullFill
                          ELSE (weight * FullFill) \div r.batch_min
              IN  (fill * r.batch_min) \div FullFill

\* calculate_and_write_program_totals: this_fill of one stored batch.
TotalsFill(r, weight, piece_count) ==
    IF IsCountBased(r)
    THEN IF r.bc_type = "exact"
         THEN IF piece_count = r.bc_val THEN FullFill
              ELSE (piece_count * FullFill) \div r.bc_val
         ELSE IF piece_count >= r.bc_val THEN FullFill
              ELSE (piece_count * FullFill) \div r.bc_val
    ELSE IF r.batch_min <= 0 THEN FullFill
         ELSE IF weight >= r.batch_min THEN FullFill
              ELSE (weight * FullFill) \div r.batch_min

\* calculate_and_write_program_totals: this_target of one stored batch.
TotalsTarget(r, weight, piece_count) ==
    IF IsCountBased(r)
    THEN (TotalsFill(r, weight, piece_count) * (r.bc_val * r.piece_min)) \div FullFill
    ELSE IF r.batch_min <= 0 THEN weight
         ELSE (TotalsFill(r, weight, piece_count) * r.batch_min) \div FullFill

\* ------------------------------------------------------------------ state
VARIABLES
    \* the environment
    now,                    \* wall clock, datetime.now(timezone.utc)
    pieces_db,              \* InfluxDB table pieces, in time order
    batch_completions,      \* SQLite table batch_completions, row i has id i
    \* the relational store
    recipes_tbl,            \* table recipes: row i is the name of recipe id i
    programs,               \* table programs: row i is the name of program id i
    program_stats,          \* table program_stats, keyed by program_id
    recipe_stats,           \* table recipe_stats, keyed by <<program_id, recipe_id>>
    run_configs,            \* tables run_configs + run_config_assignments
    kpi_minute_recipes,     \* rows written by write_m3_per_recipe_sqlite
    kpi_minute_combined,    \* rows written by write_m3_combined_sqlite
    kpi_totals,             \* rows written by write_m4_totals_sqlite
    \* LiveWorker fields
    recipes,                \* self.recipes: recipe_id -> RecipeSpec
    gate_to_recipe,         \* self.gate_to_recipe: gate -> recipe_id
    program_id,             \* self.program_id
    assignments_json,       \* simulator/data/program_assignments.json
    program_assignments,    \* self.program_assignments
    current_program_index,
    last_program_switch,
    next_program_switch_delay,
    last_processed_time,    \* piece poll cursor
    last_batch_id_processed,\* batch poll cursor
    current_minute,
    minute_accumulator,     \* <<>> is None, <<acc>> is an open MinuteAccumulator
    m4_cumulative,          \* recipe_id -> [total_batches, cum_actual, cum_give]
    total_rejects_count,
    last_batch_time,        \* self.last_batch_time: gate -> time of its last batch
    gate_dwell_times,       \* table gate_dwell_times, in insertion order
    gate_dwell_accumulators,\* table gate_dwell_accumulators, keyed by <<program_id, gate>>
    reset_requests,         \* POSTs of notify_gate_reset to the backend, with their outcome
    \* the offline replay (one_time_import.py) on the same store
    df_slice,               \* the events of the replayed window
    import_runs,            \* times the import has been run on the store
    program_throughput_minute, \* table, keyed by <<program_id, ts_minute>>
    recipe_throughput_minute,  \* table, keyed by <<program_id, recipe_id, ts_minute>>
    \* MachineStateClient (machine_client.py) and the backend it polls
    machine_state,          \* the machine state the backend would report
    last_state,             \* self.last_state: <<>> is None
    wait_timeout,           \* wait_for_state_change: polls that fit in `timeout`
    wait_polls,             \* wait_for_state_change: polls made so far
    wait_result,            \* wait_for_state_change: [done, value], value <<>> is None
    pieces_processed,
    batches_detected,
    \* locals of run() and its position in the loop
    last_minute_check,
    polled_pieces,          \* `pieces` still to be handed to process_piece
    completed_batches,      \* `completed_batches` still to be processed
    slept,                  \* ticks spent in time.sleep(60.0) so far
    pc

vars == <<now, pieces_db, batch_completions, recipes_tbl, programs, program_stats,
          recipe_stats, run_configs, kpi_minute_recipes, kpi_minute_combined,
          kpi_totals, recipes, gate_to_recipe, program_id, assignments_json,
          program_assignments,
          current_program_index, last_program_switch, next_program_switch_delay,
          last_processed_time, last_batch_id_processed, current_minute,
          minute_accumulator, m4_cumulative, total_rejects_count,
          pieces_processed, batches_detected, last_minute_check, polled_pieces,
          completed_batches, slept, pc,
          last_batch_time, gate_dwell_times, gate_dwell_accumulators,
          reset_requests, df_slice, import_runs, program_throughput_minute,
          recipe_throughput_minute, machine_state, last_state, wait_timeout,
          wait_polls, wait_result>>

\* The gate dwell tracking state.
dwell_vars == <<last_batch_time, gate_dwell_times, gate_dwell_accumulators>>

\* The state of the offline replay.
import_vars == <<df_slice, import_runs, program_throughput_minute,
                 recipe_throughput_minute>>

EmptyMap == [x \in {} |-> 0]

\* The state of the machine-state client and of the backend.
client_vars == <<machine_state, last_state, wait_timeout, wait_polls, wait_result>>

\* No machine-state client: the machine idle, nothing polled or awaited.
ClientIdle ==
    /\ machine_state = [state |-> "idle", activeRecipes |-> <<>>]
    /\ last_state = <<>>
    /\ wait_timeout = 0
    /\ wait_polls = 0
    /\ wait_result = [done |-> TRUE, value |-> <<>>]

\* The import script is not run: no window, its tables empty.
ImportIdle ==
    /\ df_slice = [batches |-> <<>>, pieces |-> <<>>]
    /\ import_runs = 0
    /\ program_throughput_minute = EmptyMap
    /\ recipe_throughput_minute = EmptyMap

\* ------------------------------------------- full-history totals recompute
\* SELECT ... FROM batch_completions WHERE completed_at >= ? AND completed_at < ?
BatchesInSpan(bc, start_ts, end_ts) ==
    SelectSeq(bc, LAMBDA b : b.completed_at >= start_ts /\ b.completed_at < end_ts)

\* SELECT id FROM run_configs WHERE program_id = ? ORDER BY id DESC LIMIT 1
\* (0 when there is none).
LatestConfigId(rc, pid) ==
    LET ids == {i \in 1 .. Len(rc) : rc[i].program_id = pid}
    IN  IF ids = {} THEN 0 ELSE CHOOSE i \in ids : \A j \in ids : j <= i

\* The rows of run_config_assignments of one config, as <<gate, recipe_id>>.
AssignmentRows(cfg) == {<<g, cfg.assignments[g]>> : g \in DOMAIN cfg.assignments}

\* SELECT DISTINCT gate, recipe_id FROM batch_completions
\* WHERE program_id = ? AND recipe_id IS NOT NULL
ReconRows(bc, pid) ==
    {<<bc[i].gate, bc[i].recipe_id>> :
        i \in {j \in 1 .. Len(bc) : bc[j].program_id = pid /\ bc[j].recipe_id # NULL}}

\* The mutation of GatesOfRecipe that gives every recipe every mapped gate.
GatesOfRecipeEveryGate(rows, rid) == {row[1] : row \in rows}

\* recipe_id_to_gates[recipe_id]
GatesOfRecipe(rows, rid) == {row[1] : row \in {x \in rows : x[2] = rid}}

\* gate_to_recipe_name[gates[0]]: the name the recompute parses for a recipe.
\* The rows come ordered by gate, so gates[0] is the recipe's lowest gate, and
\* the name kept for a gate is that of its last row (greatest recipe id).
TotalsRecipeName(rows, tbl, rid) ==
    LET gs   == GatesOfRecipe(rows, rid)
        g0   == CHOOSE g \in gs : \A h \in gs : g <= h
        rids == {row[2] : row \in {x \in rows : x[1] = g0}}
        last == CHOOSE r \in rids : \A q \in rids : q <= r
    IN  IF last \in 1 .. Len(tbl) THEN tbl[last] ELSE <<"Unknown">>

\* per_recipe_totals[recipe_id] for a recipe with at least one batch.
RecipeTotals(rows, tbl, batches, rid) ==
    LET gates == GatesOfRecipe(rows, rid)
        spec  == ParseTotalsSpec(rid, TotalsRecipeName(rows, tbl, rid))
        rb    == SelectSeq(batches, LAMBDA b : b.gate \in gates)
        filled_equiv == SeqSum([i \in 1 .. Len(rb) |->
                                  TotalsFill(spec, rb[i].weight_g, rb[i].pieces)])
        w_target_sum == SeqSum([i \in 1 .. Len(rb) |->
                                  TotalsTarget(spec, rb[i].weight_g, rb[i].pieces)])
        w_actual_sum == SeqSum([i \in 1 .. Len(rb) |-> rb[i].weight_g])
        w_give       == Giveaway(w_actual_sum, w_target_sum)
    IN  [total_batches |-> filled_equiv,
         total_batched_weight_g |-> w_target_sum,
         total_giveaway_weight_g |-> w_give,
         total_items_batched |-> SeqSum([i \in 1 .. Len(rb) |-> rb[i].pieces]),
         gates_assigned |-> gates]

\* The recipes the recompute writes: those of the mapping with a batch in span.
RecipesWithBatches(rows, batches) ==
    {rid \in {row[2] : row \in rows} :
        \E i \in 1 .. Len(batches) : batches[i].gate \in GatesOfRecipe(rows, rid)}

SumField(f, S, field) ==
    SeqSum([i \in 1 .. Cardinality(S) |-> f[SetToSeq(S)[i]][field]])

\* UPDATE program_stats SET end_ts = ? WHERE program_id = ?
SetEndTs(ps, pid, end_ts) ==
    IF pid \in DOMAIN ps THEN [ps EXCEPT ![pid].end_ts = end_ts] ELSE ps

\* calculate_and_write_program_totals(program_id, start_ts, end_ts): the
\* program_stats and recipe_stats tables it leaves behind.
calculate_and_write_program_totals(ps, rs, rc, bc, tbl, pid, start_ts, end_ts) ==
    LET batches   == BatchesInSpan(bc, start_ts, end_ts)
        config_id == LatestConfigId(rc, pid)
        recon     == ReconRows(bc, pid)
        rows      == IF config_id # 0 THEN AssignmentRows(rc[config_id]) ELSE recon
        rids      == RecipesWithBatches(rows, batches)
        per       == [rid \in rids |-> RecipeTotals(rows, tbl, batches, rid)]
    IN  IF batches = <<>>
        THEN [program_stats |-> ps, recipe_stats |-> rs]
        ELSE IF config_id = 0 /\ recon = {}
        THEN [program_stats |-> SetEndTs(ps, pid, end_ts), recipe_stats |-> rs]
        ELSE IF rows = {}
        THEN [program_stats |-> ps, recipe_stats |-> rs]
        ELSE [program_stats |->
                IF pid \in DOMAIN ps
                THEN [ps EXCEPT ![pid] =
                        [start_ts |-> start_ts, end_ts |-> end_ts,
                         total_batches |-> SumField(per, rids, "total_batches"),
                         total_batched_weight_g |->
                             SumField(per, rids, "total_batched_weight_g"),
                         total_giveaway_weight_g |->
                             SumField(per, rids, "total_giveaway_weight_g"),
                         total_items_batched |->
                             SumField(per, rids, "total_items_batched")]]
                ELSE ps,
              recipe_stats |->
                [k \in (DOMAIN rs) \cup {<<pid, rid>> : rid \in rids} |->
                    IF k[1] = pid /\ k[2] \in rids THEN per[k[2]] ELSE rs[k]]]

\* ------------------------------------------------------- startup recovery
\* SELECT MAX(completed_at), COUNT(*) FROM batch_completions WHERE program_id = ?
ProgramBatchIdx(bc, pid) == {i \in 1 .. Len(bc) : bc[i].program_id = pid}

LastBatchTime(bc, pid) ==
    LET ts == {bc[i].completed_at : i \in ProgramBatchIdx(bc, pid)}
    IN  CHOOSE t \in ts : \A u \in ts : u <= t

\* The end_ts recovery picks for one incomplete program.
RecoveryEndTs(ps, bc, pid) ==
    IF ProgramBatchIdx(bc, pid) = {} THEN ps[pid].start_ts ELSE LastBatchTime(bc, pid)

RECURSIVE IncompleteOrder(_, _)
\* SELECT program_id FROM program_stats WHERE end_ts IS NULL ORDER BY start_ts DESC
IncompleteOrder(ps, S) ==
    IF S = {} THEN <<>>
    ELSE LET p == CHOOSE x \in S : \A y \in S :
                     \/ ps[x].start_ts > ps[y].start_ts
                     \/ (ps[x].start_ts = ps[y].start_ts /\ x >= y)
         IN  <<p>> \o IncompleteOrder(ps, S \ {p})

RECURSIVE RecoverEach(_, _, _, _, _, _, _)
\* The `for prog in incomplete` loop of recover_incomplete_programs.
RecoverEach(todo, ps, rs, rc, bc, tbl, progs) ==
    IF todo = <<>> THEN [program_stats |-> ps, recipe_stats |-> rs]
    ELSE LET pid == Head(todo)
         IN  IF pid \notin 1 .. Len(progs)
             THEN RecoverEach(Tail(todo), ps, rs, rc, bc, tbl, progs)
             ELSE LET done == calculate_and_write_program_totals(
                                  ps, rs, rc, bc, tbl, pid,
                                  ps[pid].start_ts, RecoveryEndTs(ps, bc, pid))
                  IN  RecoverEach(Tail(todo), done.program_stats,
                                  done.recipe_stats, rc, bc, tbl, progs)

\* recover_incomplete_programs
recover_incomplete_programs(ps, rs, rc, bc, tbl, progs) ==
    RecoverEach(IncompleteOrder(ps, {p \in DOMAIN ps : ps[p].end_ts = NULL}),
                ps, rs, rc, bc, tbl, progs)

\* The mutation of _get_recipe_id_from_name that inserts without looking
\* the name up.
get_recipe_id_from_name_always_insert(tbl, name) ==
    LET NumOk(tok) == tok = "NA" \/ IsInt(tok)
    IN  IF Len(name) < 7 \/ name[1] # "R"
        THEN [id |-> NULL, tbl |-> tbl]
        ELSE IF ~ (/\ \A i \in 2 .. 5 : NumOk(name[i])
                   /\ (name[7] \in {"NA", "0", ""} \/ IsInt(name[7])))
        THEN [id |-> NULL, tbl |-> tbl]
        ELSE [id |-> Len(tbl) + 1, tbl |-> Append(tbl, name)]

\* ---------------------------------------------------- program assignment
\* LiveWorker._get_recipe_id_from_name: the id (NULL for None) and the table.
get_recipe_id_from_name(tbl, name) ==
    LET existing == {i \in 1 .. Len(tbl) : tbl[i] = name}
        NumOk(tok) == tok = "NA" \/ IsInt(tok)
    IN  IF Len(name) < 2 \/ name[1] # "R"
        THEN [id |-> NULL, tbl |-> tbl]
        ELSE IF existing # {}
        THEN [id |-> CHOOSE i \in existing : \A j \in existing : i <= j, tbl |-> tbl]
        ELSE IF Len(name) < 7
        THEN [id |-> NULL, tbl |-> tbl]
        ELSE IF ~ (/\ \A i \in 2 .. 5 : NumOk(name[i])
                   /\ (name[7] \in {"NA", "0", ""} \/ IsInt(name[7])))
        THEN [id |-> NULL, tbl |-> tbl]
        ELSE [id |-> Len(tbl) + 1, tbl |-> Append(tbl, name)]

RECURSIVE AssignGates(_, _, _, _, _)
\* The `for gate_str, recipe_name in gate_assignments.items()` loop: the
\* recipes table, the rows of the new config and the worker's gate map.
AssignGates(gates, ga, tbl, rows, g2r) ==
    IF gates = <<>> THEN [tbl |-> tbl, rows |-> rows, g2r |-> g2r]
    ELSE LET gate == Head(gates)
             got  == get_recipe_id_from_name(tbl, ga[gate])
         IN  IF got.id # NULL /\ got.id # 0
             THEN AssignGates(Tail(gates), ga, got.tbl,
                              Put(rows, gate, got.id), Put(g2r, gate, got.id))
             ELSE AssignGates(Tail(gates), ga, got.tbl, rows, g2r)

\* The program name is the local time to the second: program_YYYYMMDD_HHMMSS.
ProgramName(t) == t

\* apply_program_assignment(assignment_config): every table and field it writes.
apply_program_assignment(cfg, t, progs, ps, rc, tbl, g2r) ==
    LET named    == {i \in 1 .. Len(progs) : progs[i] = ProgramName(t)}
        pid      == IF named # {} THEN CHOOSE i \in named : TRUE ELSE Len(progs) + 1
        assigned == AssignGates(SetToSeq(DOMAIN cfg.gate_assignments),
                                cfg.gate_assignments, tbl, EmptyMap, g2r)
    IN  [programs |-> IF named # {} THEN progs ELSE Append(progs, ProgramName(t)),
         run_configs |-> Append(rc, [program_id |-> pid,
                                     assignments |-> assigned.rows]),
         recipes_tbl |-> assigned.tbl,
         gate_to_recipe |-> assigned.g2r,
         program_stats |->
            IF pid \in DOMAIN ps
            THEN [ps EXCEPT ![pid].start_ts = t, ![pid].end_ts = NULL]
            ELSE Put(ps, pid, [start_ts |-> t, end_ts |-> NULL,
                               total_batches |-> 0, total_batched_weight_g |-> 0,
                               total_giveaway_weight_g |-> 0,
                               total_items_batched |-> 0]),
         program_id |-> pid,
         m4_cumulative |-> EmptyMap,
         total_rejects_count |-> 0,
         last_batch_time |-> EmptyMap]

\* ---------------------------------------------------------- minute window
\* MinuteAccumulator(minute_start=minute_bucket)
MinuteAccumulator(minute_bucket) ==
    [minute_start |-> minute_bucket,
     pieces_by_gate |-> [g \in Gates |-> <<>>],
     batches_by_gate |-> [g \in Gates |-> <<>>]]

\* `self.minute_accumulator is None or minute_bucket > self.current_minute`:
\* the accumulator an event of minute_bucket is added to, and current_minute.
WindowFor(acc, cur, minute_bucket) ==
    IF acc = <<>> \/ minute_bucket > cur
    THEN [acc |-> MinuteAccumulator(minute_bucket), current_minute |-> minute_bucket]
    ELSE [acc |-> acc[1], current_minute |-> cur]

\* accumulate_for_minute(piece, None)
accumulate_for_minute(acc, cur, piece) ==
    LET w == WindowFor(acc, cur, MinuteBucket(piece.timestamp))
    IN  [acc |-> <<[w.acc EXCEPT !.pieces_by_gate[piece.gate] = Append(@, piece)]>>,
         current_minute |-> w.current_minute]

\* BatchEvent(timestamp, gate, weight_g, piece_count) of a batch_completions row
BatchEvent(batch) ==
    [timestamp |-> batch.completed_at, gate |-> batch.gate,
     weight_g |-> batch.weight_g, piece_count |-> batch.pieces]

\* The window part of process_completed_batch(batch)
add_completed_batch(acc, cur, batch) ==
    LET w == WindowFor(acc, cur, MinuteBucket(batch.completed_at))
    IN  [acc |-> <<[w.acc EXCEPT !.batches_by_gate[batch.gate] =
                        Append(@, BatchEvent(batch))]>>,
         current_minute |-> w.current_minute]

\* ------------------------------------------------------------- gate dwell
\* One tick of the clock in seconds; a batch_completions row carries the tick
\* of completed_at and the seconds past it.
SecondsPerTick == 60 \div TicksPerMinute

\* datetime.fromisoformat(batch['completed_at']) as seconds.
BatchSeconds(batch) == batch.completed_at * SecondsPerTick + batch.second

RECURSIVE Factorial(_)
Factorial(n) == IF n <= 1 THEN 1 ELSE n * Factorial(n - 1)

Min(a, b) == IF a <= b THEN a ELSE b

\* mean_sec is held in units of 1 / WelfordScale and m2_sec in units of
\* 1 / WelfordScale^2, so that every delta / n of the samples a run can feed
\* is exact (n * (n - 1) divides WelfordScale for every n reached).
WelfordScale == Factorial(MaxDwellBatches + 1)

\* The mutation of the Welford update that squares the first delta.
update_gate_dwell_accumulator_delta_squared(gda, pid, gate, dwell_time_sec) ==
    LET key == <<pid, gate>>
        row == Get(gda, key, [sample_count |-> 0, mean_sec |-> 0, m2_sec |-> 0,
                              min_sec |-> NULL, max_sec |-> NULL])
        n == row.sample_count + 1
        delta == dwell_time_sec * WelfordScale - row.mean_sec
        mean == row.mean_sec + (delta \div n)
    IN  Put(gda, key,
            [sample_count |-> n, mean_sec |-> mean,
             m2_sec |-> row.m2_sec + delta * delta,
             min_sec |-> IF row.min_sec = NULL THEN dwell_time_sec
                         ELSE Min(row.min_sec, dwell_time_sec),
             max_sec |-> IF row.max_sec = NULL THEN dwell_time_sec
                         ELSE Max(row.max_sec, dwell_time_sec)])

\* update_gate_dwell_accumulator(gate, dwell_time_sec): the Welford update of
\* the row of (self.program_id, gate), upserted.
update_gate_dwell_accumulator(gda, pid, gate, dwell_time_sec) ==
    LET key == <<pid, gate>>
        row == Get(gda, key, [sample_count |-> 0, mean_sec |-> 0, m2_sec |-> 0,
                              min_sec |-> NULL, max_sec |-> NULL])
        n == row.sample_count + 1
        delta == dwell_time_sec * WelfordScale - row.mean_sec
        mean == row.mean_sec + (delta \div n)
        delta2 == dwell_time_sec * WelfordScale - mean
    IN  Put(gda, key,
            [sample_count |-> n, mean_sec |-> mean,
             m2_sec |-> row.m2_sec + delta * delta2,
             min_sec |-> IF row.min_sec = NULL THEN dwell_time_sec
                         ELSE Min(row.min_sec, dwell_time_sec),
             max_sec |-> IF row.max_sec = NULL THEN dwell_time_sec
                         ELSE Max(row.max_sec, dwell_time_sec)])

\* The dwell part of process_completed_batch(batch): a sample for a
\* non-reject gate with a recorded last batch time, and the new last time.
track_gate_dwell(lbt, gdt, gda, pid, batch) ==
    LET gate == batch.gate
        batch_time == BatchSeconds(batch)
    IN  IF gate # 0
        THEN IF gate \in DOMAIN lbt
             THEN LET dwell_time_sec == batch_time - lbt[gate]
                  IN  [last_batch_time |-> Put(lbt, gate, batch_time),
                       gate_dwell_times |->
                           Append(gdt, [program_id |-> pid, gate_number |-> gate,
                                        dwell_time_sec |-> dwell_time_sec,
                                        batch_timestamp |-> batch_time]),
                       gate_dwell_accumulators |->
                           update_gate_dwell_accumulator(gda, pid, gate,
                                                         dwell_time_sec)]
             ELSE [last_batch_time |-> Put(lbt, gate, batch_time),
                   gate_dwell_times |-> gdt, gate_dwell_accumulators |-> gda]
        ELSE [last_batch_time |-> lbt, gate_dwell_times |-> gdt,
              gate_dwell_accumulators |-> gda]

\* ------------------------------------------------------ per-minute KPIs (M3)
\* active_recipe_ids: the recipes of the gate map the in-memory catalog knows.
ActiveRecipeIds(g2r, rcp) ==
    {g2r[g] : g \in {h \in DOMAIN g2r : h # 0 /\ g2r[h] # 0 /\ g2r[h] \in DOMAIN rcp}}

\* gates_with_this_recipe
GatesWithThisRecipe(g2r, rid) == {g \in DOMAIN g2r : g2r[g] = rid /\ g # 0}

RECURSIVE Collect(_, _)
\* The extend() loop over a recipe's gates: by_gate[g] for each gate, joined.
Collect(by_gate, gates) ==
    IF gates = <<>> THEN <<>>
    ELSE Get(by_gate, Head(gates), <<>>) \o Collect(by_gate, Tail(gates))

\* (w_give / denom * 100.0) if denom > 0 else 0.0, in whole percent.
Pct(w_give, denom) == IF denom > 0 THEN (w_give * 100) \div denom ELSE 0

\* The kpi_minute_recipes row of one active recipe.
M3RecipeRow(acc, g2r, rcp, pid, rid) ==
    LET gates   == SetToSeq(GatesWithThisRecipe(g2r, rid))
        pcs     == Collect(acc.pieces_by_gate, gates)
        bts     == Collect(acc.batches_by_gate, gates)
        w_actual == SeqSum([i \in 1 .. Len(bts) |-> bts[i].weight_g])
        w_target == SeqSum([i \in 1 .. Len(bts) |->
                              M3Target(rcp[rid], bts[i].weight_g, bts[i].piece_count)])
        w_give  == Giveaway(w_actual, w_target)
    IN  [timestamp |-> acc.minute_start,
         recipe_name |-> rcp[rid].recipe_name,
         recipe_id |-> rid,
         program_id |-> pid,
         batches_min |-> Len(bts),
         w_give |-> IF bts = <<>> THEN 0 ELSE w_give,
         denom |-> IF bts = <<>> THEN 0 ELSE w_actual + w_give,
         giveaway_pct |-> IF bts = <<>> THEN 0 ELSE Pct(w_give, w_actual + w_give),
         pieces_processed |-> Len(pcs),
         weight_processed_g |-> SeqSum([i \in 1 .. Len(pcs) |-> pcs[i].weight_g])]

\* The rows process_m3_kpis writes to kpi_minute_recipes, one per active recipe.
M3RecipeRows(acc, g2r, rcp, pid) ==
    LET rids == SetToSeq(ActiveRecipeIds(g2r, rcp))
    IN  [i \in 1 .. Len(rids) |-> M3RecipeRow(acc, g2r, rcp, pid, rids[i])]

\* The mutation of M3CombinedRow that counts the pieces of every gate.
M3CombinedRowEveryGate(acc, g2r, rcp, pid, rejects_before) ==
    LET rows   == M3RecipeRows(acc, g2r, rcp, pid)
        extra  == SelectSeq(rows, LAMBDA r : r.batches_min > 0)
        pcs    == Collect(acc.pieces_by_gate, SetToSeq(Gates))
        bts    == Collect(acc.batches_by_gate, SetToSeq(Gates \ {0}))
        reject_pieces_min == Len(acc.pieces_by_gate[0])
    IN  [timestamp |-> acc.minute_start,
         batches_min |-> Len(bts),
         giveaway_pct |-> Pct(SeqSum([i \in 1 .. Len(extra) |-> extra[i].w_give]),
                              SeqSum([i \in 1 .. Len(extra) |-> extra[i].denom])),
         pieces_processed |-> Len(pcs),
         weight_processed_g |-> SeqSum([i \in 1 .. Len(pcs) |-> pcs[i].weight_g]),
         rejects_per_min |-> reject_pieces_min,
         total_rejects_count |-> rejects_before + reject_pieces_min]

\* The row process_m3_kpis writes to kpi_minute_combined.
M3CombinedRow(acc, g2r, rcp, pid, rejects_before) ==
    LET rows   == M3RecipeRows(acc, g2r, rcp, pid)
        extra  == SelectSeq(rows, LAMBDA r : r.batches_min > 0)
        gs     == SetToSeq(Gates \ {0})
        pcs    == Collect(acc.pieces_by_gate, gs)
        bts    == Collect(acc.batches_by_gate, gs)
        reject_pieces_min == Len(acc.pieces_by_gate[0])
    IN  [timestamp |-> acc.minute_start,
         batches_min |-> Len(bts),
         giveaway_pct |-> Pct(SeqSum([i \in 1 .. Len(extra) |-> extra[i].w_give]),
                              SeqSum([i \in 1 .. Len(extra) |-> extra[i].denom])),
         pieces_processed |-> Len(pcs),
         weight_processed_g |-> SeqSum([i \in 1 .. Len(pcs) |-> pcs[i].weight_g]),
         rejects_per_min |-> reject_pieces_min,
         total_rejects_count |-> rejects_before + reject_pieces_min]

\* --------------------------------------------------- cumulative totals (M4)
\* The batches of the window on the gates of one recipe.
M4Batches(acc, g2r, rid) ==
    Collect(acc.batches_by_gate, SetToSeq(GatesWithThisRecipe(g2r, rid)))

\* A tracker that keeps only the last minute: the cumulative state is
\* overwritten instead of added to.
M4AddOverwrite(cum, r, bts) ==
    LET filled_equiv_min == SeqSum([i \in 1 .. Len(bts) |->
                                M4Fill(r, bts[i].weight_g, bts[i].piece_count)])
        w_actual_min == SeqSum([i \in 1 .. Len(bts) |-> bts[i].weight_g])
        w_target_min == SeqSum([i \in 1 .. Len(bts) |->
                                M4Target(r, bts[i].weight_g, bts[i].piece_count)])
    IN  [total_batches |-> filled_equiv_min,
         cum_actual |-> w_actual_min,
         cum_give |-> Max(0, w_actual_min - w_target_min)]

\* self.m4_cumulative[recipe_id] after this minute's batches were added.
M4Add(cum, r, bts) ==
    LET filled_equiv_min == SeqSum([i \in 1 .. Len(bts) |->
                                M4Fill(r, bts[i].weight_g, bts[i].piece_count)])
        w_actual_min == SeqSum([i \in 1 .. Len(bts) |-> bts[i].weight_g])
        w_target_min == SeqSum([i \in 1 .. Len(bts) |->
                                M4Target(r, bts[i].weight_g, bts[i].piece_count)])
        w_give_min   == Giveaway(w_actual_min, w_target_min)
        old == Get(cum, r.recipe_id,
                   [total_batches |-> 0, cum_actual |-> 0, cum_give |-> 0])
    IN  [total_batches |-> old.total_batches + filled_equiv_min,
         cum_actual |-> old.cum_actual + w_actual_min,
         cum_give |-> old.cum_give + w_give_min]

\* self.m4_cumulative after process_m4_totals
M4Cumulative(acc, g2r, rcp, cum) ==
    LET hit == {rid \in ActiveRecipeIds(g2r, rcp) : M4Batches(acc, g2r, rid) # <<>>}
    IN  [rid \in (DOMAIN cum) \cup hit |->
            IF rid \in hit THEN M4Add(cum, rcp[rid], M4Batches(acc, g2r, rid))
            ELSE cum[rid]]

\* The kpi_totals row of one recipe from its cumulative state.
M4Row(acc, rcp, pid, rid, c) ==
    [timestamp |-> acc.minute_start,
     recipe_name |-> rcp[rid].recipe_name,
     recipe_id |-> rid,
     program_id |-> pid,
     total_batches |-> c.total_batches \div FullFill,
     giveaway_g_per_batch |->
         (c.cum_give * FullFill) \div Max(FullFill, c.total_batches),
     giveaway_pct_avg |-> Pct(c.cum_give, c.cum_actual + c.cum_give)]

\* The mutation of M4Rows that writes rows only for the recipes with batches
\* this minute.
M4RowsBatchesOnly(acc, g2r, rcp, pid, cum) ==
    LET after == M4Cumulative(acc, g2r, rcp, cum)
        rids  == SetToSeq({rid \in ActiveRecipeIds(g2r, rcp) :
                              M4Batches(acc, g2r, rid) # <<>>})
    IN  [i \in 1 .. Len(rids) |-> M4Row(acc, rcp, pid, rids[i], after[rids[i]])]

\* The rows process_m4_totals writes to kpi_totals: one for every active
\* recipe with batches this minute or with cumulative state already.
M4Rows(acc, g2r, rcp, pid, cum) ==
    LET after == M4Cumulative(acc, g2r, rcp, cum)
        rids  == SetToSeq(ActiveRecipeIds(g2r, rcp) \cap DOMAIN after)
    IN  [i \in 1 .. Len(rids) |-> M4Row(acc, rcp, pid, rids[i], after[rids[i]])]

\* process_minute_kpis(): what closing the open window writes and leaves.
process_minute_kpis(acc, g2r, rcp, pid, cum, rejects_before) ==
    [recipe_rows |-> M3RecipeRows(acc, g2r, rcp, pid),
     combined_row |-> M3CombinedRow(acc, g2r, rcp, pid, rejects_before),
     total_rejects_count |-> rejects_before + Len(acc.pieces_by_gate[0]),
     totals_rows |-> M4Rows(acc, g2r, rcp, pid, cum),
     m4_cumulative |-> M4Cumulative(acc, g2r, rcp, cum)]

\* -------------------------------------------------------- initial stores
ZeroStats(start_ts) ==
    [start_ts |-> start_ts, end_ts |-> NULL, total_batches |-> 0,
     total_batched_weight_g |-> 0, total_giveaway_weight_g |-> 0,
     total_items_batched |-> 0]

BatchRow(id, gate, weight_g, pieces, completed_at, pid, rid) ==
    [id |-> id, gate |-> gate, weight_g |-> weight_g, pieces |-> pieces,
     completed_at |-> completed_at, second |-> 0, program_id |-> pid,
     recipe_id |-> rid]

\* What an earlier run of the worker and of ingestion left in the store.
\* A fresh store.
HistoryFresh ==
    [programs |-> <<>>, program_stats |-> EmptyMap, run_configs |-> <<>>,
     batch_completions |-> <<>>]

\* Program 1 crashed mid-run: its config is stored, three batches, last at 3.
HistoryCrashed ==
    [programs |-> <<0>>, program_stats |-> (1 :> ZeroStats(0)),
     run_configs |-> <<[program_id |-> 1, assignments |-> (1 :> 1 @@ 2 :> 1)]>>,
     batch_completions |-> <<BatchRow(1, 1, 6, 2, 1, 1, 1),
                             BatchRow(2, 2, 2, 1, 2, 1, 1),
                             BatchRow(3, 1, 6, 2, 3, 1, 1)>>]

\* Program 1 crashed before any batch completed: its config is stored.
HistoryEmptyCrashed ==
    [programs |-> <<0>>, program_stats |-> (1 :> ZeroStats(0)),
     run_configs |-> <<[program_id |-> 1, assignments |-> (1 :> 1 @@ 2 :> 1)]>>,
     batch_completions |-> <<>>]

\* Programs 1 and 2 have no end timestamp and no stored config: program 1
\* has two batches that carry recipe 1, program 2 has no batch at all.
HistoryNoConfig ==
    [programs |-> <<0, 2>>,
     program_stats |-> (1 :> ZeroStats(0) @@ 2 :> ZeroStats(2)),
     run_configs |-> <<>>,
     batch_completions |-> <<BatchRow(1, 1, 6, 2, 0, 1, 1),
                             BatchRow(2, 2, 6, 2, 1, 1, 1)>>]

\* The configuration lists the worker may be started with.
Config(ts, ga) == [timestamp |-> ts, gate_assignments |-> ga]

FileSingle == <<Config(0, (1 :> RW @@ 2 :> RW))>>
FileOneSwitch ==
    <<Config(0, (1 :> RW @@ 2 :> RW)), Config(TicksPerMinute, (1 :> RX))>>
FileSameTime ==
    <<Config(0, (1 :> RX @@ 2 :> RW)), Config(0, (1 :> RM @@ 2 :> RM))>>
FileTwoSwitches ==
    <<Config(0, (1 :> RX)), Config(TicksPerMinute, (1 :> RW @@ 2 :> RW)),
      Config(2 * TicksPerMinute, (1 :> RX @@ 2 :> RX))>>
FileLateSwitch ==
    <<Config(0, (1 :> RX)), Config(2 * TicksPerMinute, (1 :> RW @@ 2 :> RW))>>
\* A list that assigns a recipe to the reject gate as well.
FileRejectAssigned == <<Config(0, (0 :> RW @@ 1 :> RW @@ 2 :> RX))>>

\* The starts of the worker the model explores: a store and a file.
Scenarios ==
    { [history |-> HistoryFresh,   file |-> FileOneSwitch],
      [history |-> HistoryFresh,   file |-> FileTwoSwitches],
      [history |-> HistoryCrashed, file |-> FileSingle],
      [history |-> HistoryCrashed, file |-> FileSameTime],
      [history |-> HistoryEmptyCrashed, file |-> FileLateSwitch],
      [history |-> HistoryNoConfig, file |-> FileSingle],
      [history |-> HistoryFresh,   file |-> FileRejectAssigned] }

Init ==
    /\ now = StartTime
    /\ pieces_db = <<>>
    /\ \E s \in Scenarios :
          /\ batch_completions = s.history.batch_completions
          /\ programs = s.history.programs
          /\ program_stats = s.history.program_stats
          /\ run_configs = s.history.run_configs
          /\ assignments_json = s.file
    /\ recipes_tbl = <<RW, RX>>
    /\ recipe_stats = EmptyMap
    /\ kpi_minute_recipes = <<>>
    /\ kpi_minute_combined = <<>>
    /\ kpi_totals = <<>>
    /\ recipes = EmptyMap
    /\ gate_to_recipe = EmptyMap
    /\ program_id = 1
    /\ program_assignments = <<>>
    /\ current_program_index = 0
    /\ last_program_switch = NULL
    /\ next_program_switch_delay = NULL
    /\ last_processed_time = NULL
    /\ last_batch_id_processed = 0
    /\ current_minute = NULL
    /\ minute_accumulator = <<>>
    /\ m4_cumulative = EmptyMap
    /\ total_rejects_count = 0
    /\ pieces_processed = 0
    /\ batches_detected = 0
    /\ last_minute_check = NULL
    /\ polled_pieces = <<>>
    /\ completed_batches = <<>>
    /\ slept = 0
    /\ pc = "init"
    /\ last_batch_time = EmptyMap
    /\ gate_dwell_times = <<>>
    /\ gate_dwell_accumulators = EmptyMap
    /\ reset_requests = <<>>
    /\ ImportIdle
    /\ ClientIdle

\* ------------------------------------------------------------ environment
\* Ingestion writes a piece, stamped with the current time, to InfluxDB.
\* An event of the tick at which the loop wakes comes after the loop's reads
\* of the clock in that iteration.  Pieces carry distinct timestamps, and so
\* do batches.
IngestPiece ==
    /\ pc = "sleep"
    /\ slept < TicksPerMinute
    /\ now < MaxTime
    /\ Len(pieces_db) < MaxPieces
    /\ \A i \in 1 .. Len(pieces_db) : pieces_db[i].timestamp < now
    /\ \E g \in Gates, w \in PieceWeights :
          pieces_db' = Append(pieces_db, [timestamp |-> now, weight_g |-> w, gate |-> g])
    /\ UNCHANGED <<now, batch_completions, recipes_tbl, programs, program_stats,
                   recipe_stats, run_configs, kpi_minute_recipes, kpi_minute_combined,
                   kpi_totals, recipes, gate_to_recipe, program_id, assignments_json,
                   program_assignments, current_program_index, last_program_switch,
                   next_program_switch_delay, last_processed_time,
                   last_batch_id_processed, current_minute, minute_accumulator,
                   m4_cumulative, total_rejects_count, pieces_processed,
                   batches_detected, last_minute_check, polled_pieces,
                   completed_batches, slept, pc>>
    /\ UNCHANGED dwell_vars
    /\ UNCHANGED reset_requests
    /\ UNCHANGED import_vars
    /\ UNCHANGED client_vars

\* The backend's batch detection writes a completed batch to batch_completions.
CompleteBatch ==
    /\ pc = "sleep"
    /\ slept < TicksPerMinute
    /\ now < MaxTime
    /\ Len(SelectSeq(batch_completions, LAMBDA b : b.completed_at >= StartTime))
          < MaxBatches
    /\ \A i \in 1 .. Len(batch_completions) : batch_completions[i].completed_at < now
    /\ \E g \in Gates \ {0}, k \in BatchKinds :
          batch_completions' =
              Append(batch_completions,
                     BatchRow(Len(batch_completions) + 1, g, k[1], k[2], now, program_id,
                              Get(gate_to_recipe, g, NULL)))
    /\ UNCHANGED <<now, pieces_db, recipes_tbl, programs, program_stats,
                   recipe_stats, run_configs, kpi_minute_recipes, kpi_minute_combined,
                   kpi_totals, recipes, gate_to_recipe, program_id, assignments_json,
                   program_assignments, current_program_index, last_program_switch,
                   next_program_switch_delay, last_processed_time,
                   last_batch_id_processed, current_minute, minute_accumulator,
                   m4_cumulative, total_rejects_count, pieces_processed,
                   batches_detected, last_minute_check, polled_pieces,
                   completed_batches, slept, pc>>
    /\ UNCHANGED dwell_vars
    /\ UNCHANGED reset_requests
    /\ UNCHANGED import_vars
    /\ UNCHANGED client_vars

\* ----------------------------------------------------------------- startup
\* run(): self.load_recipes()
LoadRecipes ==
    /\ pc = "init"
    /\ recipes' = [i \in 1 .. Len(recipes_tbl) |-> from_db_row(i, recipes_tbl[i])]
    /\ pc' = "recover"
    /\ UNCHANGED <<now, pieces_db, batch_completions, recipes_tbl, programs,
                   program_stats, recipe_stats, run_configs, kpi_minute_recipes,
                   kpi_minute_combined, kpi_totals, gate_to_recipe, program_id,
                   assignments_json, program_assignments, current_program_index,
                   last_program_switch, next_program_switch_delay,
                   last_processed_time, last_batch_id_processed, current_minute,
                   minute_accumulator, m4_cumulative, total_rejects_count,
                   pieces_processed, batches_detected, last_minute_check,
                   polled_pieces, completed_batches, slept>>
    /\ UNCHANGED dwell_vars
    /\ UNCHANGED reset_requests
    /\ UNCHANGED import_vars
    /\ UNCHANGED client_vars

\* The mutation of Recover that applies the first program assignment before
\* the recovery pass.
RecoverAfterAssignment ==
    /\ pc = "recover"
    /\ LET a == apply_program_assignment(assignments_json[1], now, programs,
                    program_stats, run_configs, recipes_tbl, gate_to_recipe)
           done == recover_incomplete_programs(a.program_stats, recipe_stats,
                       a.run_configs, batch_completions, a.recipes_tbl, a.programs)
       IN  /\ programs' = a.programs
           /\ run_configs' = a.run_configs
           /\ recipes_tbl' = a.recipes_tbl
           /\ gate_to_recipe' = a.gate_to_recipe
           /\ program_id' = a.program_id
           /\ program_stats' = done.program_stats
           /\ recipe_stats' = done.recipe_stats
    /\ pc' = "load"
    /\ UNCHANGED <<now, pieces_db, batch_completions, kpi_minute_recipes,
                   kpi_minute_combined, kpi_totals, recipes, assignments_json,
                   program_assignments, current_program_index, last_program_switch,
                   next_program_switch_delay, last_processed_time,
                   last_batch_id_processed, current_minute, minute_accumulator,
                   m4_cumulative, total_rejects_count, pieces_processed,
                   batches_detected, last_minute_check, polled_pieces,
                   completed_batches, slept>>
    /\ UNCHANGED dwell_vars
    /\ UNCHANGED reset_requests
    /\ UNCHANGED import_vars
    /\ UNCHANGED client_vars

\* run(): self.recover_incomplete_programs()
Recover ==
    /\ pc = "recover"
    /\ LET done == recover_incomplete_programs(program_stats, recipe_stats,
                       run_configs, batch_completions, recipes_tbl, programs)
       IN  /\ program_stats' = done.program_stats
           /\ recipe_stats' = done.recipe_stats
    /\ pc' = "load"
    /\ UNCHANGED <<now, pieces_db, batch_completions, recipes_tbl, programs,
                   run_configs, kpi_minute_recipes, kpi_minute_combined, kpi_totals,
                   recipes, gate_to_recipe, program_id, assignments_json,
                   program_assignments, current_program_index, last_program_switch,
                   next_program_switch_delay, last_processed_time,
                   last_batch_id_processed, current_minute, minute_accumulator,
                   m4_cumulative, total_rejects_count, pieces_processed,
                   batches_detected, last_minute_check, polled_pieces,
                   completed_batches, slept>>
    /\ UNCHANGED dwell_vars
    /\ UNCHANGED reset_requests
    /\ UNCHANGED import_vars
    /\ UNCHANGED client_vars

\* The delay to the next switch once configuration `index` (0-based) is active,
\* as check_and_switch_program computes it.
NextDelay(pa, index) ==
    LET next_index == (index + 1) % Len(pa)
    IN  IF next_index # 0
        THEN pa[next_index + 1].timestamp - pa[index + 1].timestamp
        ELSE LoopBackDelay

\* run(): load_program_assignments_from_json() and the first
\* apply_program_assignment(first_assignment)
LoadAssignments ==
    /\ pc = "load"
    /\ program_assignments' = assignments_json
    /\ current_program_index' = 0
    /\ last_program_switch' = now
    /\ next_program_switch_delay' =
          IF Len(assignments_json) > 1
          THEN assignments_json[2].timestamp - assignments_json[1].timestamp
          ELSE INF
    /\ LET a == apply_program_assignment(assignments_json[1], now, programs,
                    program_stats, run_configs, recipes_tbl, gate_to_recipe)
       IN  /\ programs' = a.programs
           /\ program_stats' = a.program_stats
           /\ run_configs' = a.run_configs
           /\ recipes_tbl' = a.recipes_tbl
           /\ gate_to_recipe' = a.gate_to_recipe
           /\ program_id' = a.program_id
           /\ m4_cumulative' = a.m4_cumulative
           /\ total_rejects_count' = a.total_rejects_count
           /\ last_batch_time' = a.last_batch_time
    /\ pc' = "poll"
    /\ UNCHANGED <<gate_dwell_times, gate_dwell_accumulators>>
    /\ UNCHANGED <<now, pieces_db, batch_completions, recipe_stats,
                   kpi_minute_recipes, kpi_minute_combined, kpi_totals, recipes,
                   assignments_json, last_processed_time, last_batch_id_processed,
                   current_minute, minute_accumulator, pieces_processed,
                   batches_detected, last_minute_check, polled_pieces,
                   completed_batches, slept>>
    /\ UNCHANGED reset_requests
    /\ UNCHANGED import_vars
    /\ UNCHANGED client_vars

\* --------------------------------------------------------------- poll loop
\* poll_new_pieces(): the pieces with from_time <= time < to_time
PollNewPieces ==
    /\ pc = "poll"
    /\ LET from_time == IF last_processed_time = NULL THEN now - FirstPollLookback
                        ELSE last_processed_time
       IN  polled_pieces' = SelectSeq(pieces_db,
                LAMBDA p : p.timestamp >= from_time /\ p.timestamp < now)
    /\ last_processed_time' = now
    /\ pc' = "pieces"
    /\ UNCHANGED <<now, pieces_db, batch_completions, recipes_tbl, programs,
                   program_stats, recipe_stats, run_configs, kpi_minute_recipes,
                   kpi_minute_combined, kpi_totals, recipes, gate_to_recipe,
                   program_id, assignments_json, program_assignments,
                   current_program_index, last_program_switch,
                   next_program_switch_delay, last_batch_id_processed,
                   current_minute, minute_accumulator, m4_cumulative,
                   total_rejects_count, pieces_processed, batches_detected,
                   last_minute_check, completed_batches, slept>>
    /\ UNCHANGED dwell_vars
    /\ UNCHANGED reset_requests
    /\ UNCHANGED import_vars
    /\ UNCHANGED client_vars

\* process_piece(piece) for the next polled piece
ProcessPiece ==
    /\ pc = "pieces"
    /\ polled_pieces # <<>>
    /\ LET w == accumulate_for_minute(minute_accumulator, current_minute,
                                      Head(polled_pieces))
       IN  /\ minute_accumulator' = w.acc
           /\ current_minute' = w.current_minute
    /\ pieces_processed' = pieces_processed + 1
    /\ polled_pieces' = Tail(polled_pieces)
    /\ UNCHANGED <<now, pieces_db, batch_completions, recipes_tbl, programs,
                   program_stats, recipe_stats, run_configs, kpi_minute_recipes,
                   kpi_minute_combined, kpi_totals, recipes, gate_to_recipe,
                   program_id, assignments_json, program_assignments,
                   current_program_index, last_program_switch,
                   next_program_switch_delay, last_processed_time,
                   last_batch_id_processed, m4_cumulative, total_rejects_count,
                   batches_detected, last_minute_check, completed_batches, slept, pc>>
    /\ UNCHANGED dwell_vars
    /\ UNCHANGED reset_requests
    /\ UNCHANGED import_vars
    /\ UNCHANGED client_vars

\* The mutation of BatchesAfter that reads from the cursor row on.
BatchesFrom(bc, cursor) == SelectSeq(bc, LAMBDA b : b.id >= cursor)

\* SELECT ... FROM batch_completions WHERE id > ? ORDER BY id ASC
\* (the table is kept in id order).
BatchesAfter(bc, cursor) == SelectSeq(bc, LAMBDA b : b.id > cursor)

\* `self.last_batch_id_processed = batch_id` for every row returned.
CursorAfter(cursor, batches) ==
    IF batches = <<>> THEN cursor ELSE batches[Len(batches)].id

\* poll_completed_batches(): the rows with id > last_batch_id_processed
PollCompletedBatches ==
    /\ pc = "pieces"
    /\ polled_pieces = <<>>
    /\ completed_batches' = BatchesAfter(batch_completions, last_batch_id_processed)
    /\ last_batch_id_processed' =
          CursorAfter(last_batch_id_processed, completed_batches')
    /\ pc' = "batches"
    /\ UNCHANGED <<now, pieces_db, batch_completions, recipes_tbl, programs,
                   program_stats, recipe_stats, run_configs, kpi_minute_recipes,
                   kpi_minute_combined, kpi_totals, recipes, gate_to_recipe,
                   program_id, assignments_json, program_assignments,
                   current_program_index, last_program_switch,
                   next_program_switch_delay, last_processed_time, current_minute,
                   minute_accumulator, m4_cumulative, total_rejects_count,
                   pieces_processed, batches_detected, last_minute_check,
                   polled_pieces, slept>>
    /\ UNCHANGED dwell_vars
    /\ UNCHANGED reset_requests
    /\ UNCHANGED import_vars
    /\ UNCHANGED client_vars

\* process_completed_batch(batch) for the next polled batch
ProcessCompletedBatch ==
    /\ pc = "batches"
    /\ completed_batches # <<>>
    /\ LET w == add_completed_batch(minute_accumulator, current_minute,
                                    Head(completed_batches))
       IN  /\ minute_accumulator' = w.acc
           /\ current_minute' = w.current_minute
    /\ LET d == track_gate_dwell(last_batch_time, gate_dwell_times,
                                 gate_dwell_accumulators, program_id,
                                 Head(completed_batches))
       IN  /\ last_batch_time' = d.last_batch_time
           /\ gate_dwell_times' = d.gate_dwell_times
           /\ gate_dwell_accumulators' = d.gate_dwell_accumulators
    /\ batches_detected' = batches_detected + 1
    /\ completed_batches' = Tail(completed_batches)
    /\ UNCHANGED <<now, pieces_db, batch_completions, recipes_tbl, programs,
                   program_stats, recipe_stats, run_configs, kpi_minute_recipes,
                   kpi_minute_combined, kpi_totals, recipes, gate_to_recipe,
                   program_id, assignments_json, program_assignments,
                   current_program_index, last_program_switch,
                   next_program_switch_delay, last_processed_time,
                   last_batch_id_processed, m4_cumulative, total_rejects_count,
                   pieces_processed, last_minute_check, polled_pieces, slept, pc>>
    /\ UNCHANGED reset_requests
    /\ UNCHANGED import_vars
    /\ UNCHANGED client_vars

\* run(): `elif current_minute_bucket > last_minute_check`, the loop sees
\* that the wall-clock minute rolled over.
MinuteRolledOver == last_minute_check # NULL /\ MinuteBucket(now) > last_minute_check

\* run(): the minute rollover check, with process_minute_kpis() when the
\* minute rolled over and a window is open.
MinuteRollover ==
    /\ pc = "batches"
    /\ completed_batches = <<>>
    /\ LET current_minute_bucket == MinuteBucket(now)
           rolled == MinuteRolledOver
       IN  /\ last_minute_check' =
                 IF last_minute_check = NULL \/ rolled THEN current_minute_bucket
                 ELSE last_minute_check
           /\ IF rolled /\ minute_accumulator # <<>>
              THEN LET k == process_minute_kpis(minute_accumulator[1], gate_to_recipe,
                                recipes, program_id, m4_cumulative,
                                total_rejects_count)
                   IN  /\ kpi_minute_recipes' = kpi_minute_recipes \o k.recipe_rows
                       /\ kpi_minute_combined' =
                              Append(kpi_minute_combined, k.combined_row)
                       /\ total_rejects_count' = k.total_rejects_count
                       /\ kpi_totals' = kpi_totals \o k.totals_rows
                       /\ m4_cumulative' = k.m4_cumulative
                       /\ minute_accumulator' = <<>>
              ELSE UNCHANGED <<kpi_minute_recipes, kpi_minute_combined,
                               total_rejects_count, kpi_totals, m4_cumulative,
                               minute_accumulator>>
    /\ pc' = "switch"
    /\ UNCHANGED <<now, pieces_db, batch_completions, recipes_tbl, programs,
                   program_stats, recipe_stats, run_configs, recipes, gate_to_recipe,
                   program_id, assignments_json, program_assignments,
                   current_program_index, last_program_switch,
                   next_program_switch_delay, last_processed_time,
                   last_batch_id_processed, current_minute, pieces_processed,
                   batches_detected, polled_pieces, completed_batches, slept>>
    /\ UNCHANGED dwell_vars
    /\ UNCHANGED reset_requests
    /\ UNCHANGED import_vars
    /\ UNCHANGED client_vars

\* The mutation of SwitchDue that does not wait for the delay.
SwitchDueAtOnce ==
    /\ program_assignments # <<>>
    /\ last_program_switch # NULL

\* check_and_switch_program(): the configuration list is loaded and the
\* delay to the next switch has elapsed.
SwitchDue ==
    /\ program_assignments # <<>>
    /\ last_program_switch # NULL
    /\ now - last_program_switch >= next_program_switch_delay

\* check_and_switch_program()
CheckAndSwitchProgram ==
    /\ pc = "switch"
    /\ IF SwitchDue
       THEN LET ended ==
                    IF /\ program_id # 0
                       /\ program_id \in DOMAIN program_stats
                       /\ program_stats[program_id].end_ts = NULL
                    THEN calculate_and_write_program_totals(
                             program_stats, recipe_stats, run_configs,
                             batch_completions, recipes_tbl, program_id,
                             program_stats[program_id].start_ts, now)
                    ELSE [program_stats |-> program_stats,
                          recipe_stats |-> recipe_stats]
                index == (current_program_index + 1) % Len(program_assignments)
                a == apply_program_assignment(program_assignments[index + 1], now,
                         programs, ended.program_stats, run_configs, recipes_tbl,
                         gate_to_recipe)
            IN  /\ recipe_stats' = ended.recipe_stats
                /\ current_program_index' = index
                /\ programs' = a.programs
                /\ program_stats' = a.program_stats
                /\ run_configs' = a.run_configs
                /\ recipes_tbl' = a.recipes_tbl
                /\ gate_to_recipe' = a.gate_to_recipe
                /\ program_id' = a.program_id
                /\ m4_cumulative' = a.m4_cumulative
                /\ total_rejects_count' = a.total_rejects_count
                /\ last_batch_time' = a.last_batch_time
                /\ last_program_switch' = now
                /\ next_program_switch_delay' = NextDelay(program_assignments, index)
       ELSE UNCHANGED <<recipe_stats, current_program_index, programs,
                        program_stats, run_configs, recipes_tbl, gate_to_recipe,
                        program_id, m4_cumulative, total_rejects_count,
                        last_batch_time, last_program_switch,
                        next_program_switch_delay>>
    /\ UNCHANGED <<gate_dwell_times, gate_dwell_accumulators>>
    /\ pc' = "sleep"
    /\ UNCHANGED <<now, pieces_db, batch_completions, kpi_minute_recipes,
                   kpi_minute_combined, kpi_totals, recipes, assignments_json,
                   program_assignments, last_processed_time,
                   last_batch_id_processed, current_minute, minute_accumulator,
                   pieces_processed, batches_detected, last_minute_check,
                   polled_pieces, completed_batches, slept>>
    /\ UNCHANGED reset_requests
    /\ UNCHANGED import_vars
    /\ UNCHANGED client_vars

\* One tick of wall-clock time passes inside time.sleep(60.0).
Tick ==
    /\ pc = "sleep"
    /\ now < MaxTime
    /\ slept < TicksPerMinute
    /\ now' = now + 1
    /\ slept' = slept + 1
    /\ UNCHANGED <<pieces_db, batch_completions, recipes_tbl, programs,
                   program_stats, recipe_stats, run_configs, kpi_minute_recipes,
                   kpi_minute_combined, kpi_totals, recipes, gate_to_recipe,
                   program_id, assignments_json, program_assignments,
                   current_program_index, last_program_switch,
                   next_program_switch_delay, last_processed_time,
                   last_batch_id_processed, current_minute, minute_accumulator,
                   m4_cumulative, total_rejects_count, pieces_processed,
                   batches_detected, last_minute_check, polled_pieces,
                   completed_batches, pc>>
    /\ UNCHANGED dwell_vars
    /\ UNCHANGED reset_requests
    /\ UNCHANGED import_vars
    /\ UNCHANGED client_vars

\* time.sleep(60.0) returns once a minute has passed.
Wake ==
    /\ pc = "sleep"
    /\ slept >= TicksPerMinute
    /\ slept' = 0
    /\ pc' = "poll"
    /\ UNCHANGED <<now, pieces_db, batch_completions, recipes_tbl, programs,
                   program_stats, recipe_stats, run_configs, kpi_minute_recipes,
                   kpi_minute_combined, kpi_totals, recipes, gate_to_recipe,
                   program_id, assignments_json, program_assignments,
                   current_program_index, last_program_switch,
                   next_program_switch_delay, last_processed_time,
                   last_batch_id_processed, current_minute, minute_accumulator,
                   m4_cumulative, total_rejects_count, pieces_processed,
                   batches_detected, last_minute_check, polled_pieces,
                   completed_batches>>
    /\ UNCHANGED dwell_vars
    /\ UNCHANGED reset_requests
    /\ UNCHANGED import_vars
    /\ UNCHANGED client_vars

Next ==
    \/ IngestPiece
    \/ CompleteBatch
    \/ LoadRecipes
    \/ Recover
    \/ LoadAssignments
    \/ PollNewPieces
    \/ ProcessPiece
    \/ PollCompletedBatches
    \/ ProcessCompletedBatch
    \/ MinuteRollover
    \/ CheckAndSwitchProgram
    \/ Tick
    \/ Wake

Spec == Init /\ [][Next]_vars

\* ------------------------------------------------------- failing operations
\* Two earlier runs crashed: programs 1 and 2 have no end timestamp, each has
\* its config stored and two batches.
HistoryTwoCrashed ==
    [programs |-> <<0, 2>>,
     program_stats |-> (1 :> ZeroStats(0) @@ 2 :> ZeroStats(2)),
     run_configs |-> <<[program_id |-> 1, assignments |-> (1 :> 1 @@ 2 :> 1)],
                       [program_id |-> 2, assignments |-> (1 :> 1)]>>,
     batch_completions |-> <<BatchRow(1, 1, 6, 2, 0, 1, 1),
                             BatchRow(2, 2, 6, 2, 1, 1, 1),
                             BatchRow(3, 1, 6, 2, 2, 2, 1),
                             BatchRow(4, 1, 6, 2, 3, 2, 1)>>]

\* The starts explored when database calls and loop steps may fail.
ScenariosFaults ==
    { [history |-> HistoryTwoCrashed, file |-> FileSingle] }

InitFaults ==
    /\ now = StartTime
    /\ pieces_db = <<>>
    /\ \E s \in ScenariosFaults :
          /\ batch_completions = s.history.batch_completions
          /\ programs = s.history.programs
          /\ program_stats = s.history.program_stats
          /\ run_configs = s.history.run_configs
          /\ assignments_json = s.file
    /\ recipes_tbl = <<RW, RX>>
    /\ recipe_stats = EmptyMap
    /\ kpi_minute_recipes = <<>>
    /\ kpi_minute_combined = <<>>
    /\ kpi_totals = <<>>
    /\ recipes = EmptyMap
    /\ gate_to_recipe = EmptyMap
    /\ program_id = 1
    /\ program_assignments = <<>>
    /\ current_program_index = 0
    /\ last_program_switch = NULL
    /\ next_program_switch_delay = NULL
    /\ last_processed_time = NULL
    /\ last_batch_id_processed = 0
    /\ current_minute = NULL
    /\ minute_accumulator = <<>>
    /\ m4_cumulative = EmptyMap
    /\ total_rejects_count = 0
    /\ pieces_processed = 0
    /\ batches_detected = 0
    /\ last_minute_check = NULL
    /\ polled_pieces = <<>>
    /\ completed_batches = <<>>
    /\ slept = 0
    /\ pc = "init"
    /\ last_batch_time = EmptyMap
    /\ gate_dwell_times = <<>>
    /\ gate_dwell_accumulators = EmptyMap
    /\ reset_requests = <<>>
    /\ ImportIdle
    /\ ClientIdle

\* The programs recover_incomplete_programs finds, in the order it visits them.
IncompletePrograms(ps) ==
    IncompleteOrder(ps, {p \in DOMAIN ps : ps[p].end_ts = NULL})

\* recover_incomplete_programs() when the program lookup or the batch lookup
\* of the k-th incomplete program raises: the programs before it are done,
\* the outer `except Exception` ends the pass, and run() goes on.
RecoverAborted ==
    /\ pc = "recover"
    /\ \E k \in 1 .. Len(IncompletePrograms(program_stats)) :
          LET done == RecoverEach(SubSeq(IncompletePrograms(program_stats), 1, k - 1),
                                  program_stats, recipe_stats, run_configs,
                                  batch_completions, recipes_tbl, programs)
          IN  /\ program_stats' = done.program_stats
              /\ recipe_stats' = done.recipe_stats
    /\ pc' = "load"
    /\ UNCHANGED <<now, pieces_db, batch_completions, recipes_tbl, programs,
                   run_configs, kpi_minute_recipes, kpi_minute_combined, kpi_totals,
                   recipes, gate_to_recipe, program_id, assignments_json,
                   program_assignments, current_program_index, last_program_switch,
                   next_program_switch_delay, last_processed_time,
                   last_batch_id_processed, current_minute, minute_accumulator,
                   m4_cumulative, total_rejects_count, pieces_processed,
                   batches_detected, last_minute_check, polled_pieces,
                   completed_batches, slept>>
    /\ UNCHANGED dwell_vars
    /\ UNCHANGED reset_requests
    /\ UNCHANGED import_vars
    /\ UNCHANGED client_vars

\* poll_new_pieces() when the query raises: the except branch returns [] and
\* last_processed_time keeps its value.
PollNewPiecesFailed ==
    /\ pc = "poll"
    /\ polled_pieces' = <<>>
    /\ pc' = "pieces"
    /\ UNCHANGED <<now, pieces_db, batch_completions, recipes_tbl, programs,
                   program_stats, recipe_stats, run_configs, kpi_minute_recipes,
                   kpi_minute_combined, kpi_totals, recipes, gate_to_recipe,
                   program_id, assignments_json, program_assignments,
                   current_program_index, last_program_switch,
                   next_program_switch_delay, last_processed_time,
                   last_batch_id_processed, current_minute, minute_accumulator,
                   m4_cumulative, total_rejects_count, pieces_processed,
                   batches_detected, last_minute_check, completed_batches, slept>>
    /\ UNCHANGED dwell_vars
    /\ UNCHANGED reset_requests
    /\ UNCHANGED import_vars
    /\ UNCHANGED client_vars

\* poll_completed_batches() when the query raises: the except branch returns
\* [] and last_batch_id_processed keeps its value.
PollCompletedBatchesFailed ==
    /\ pc = "pieces"
    /\ polled_pieces = <<>>
    /\ completed_batches' = <<>>
    /\ pc' = "batches"
    /\ UNCHANGED <<now, pieces_db, batch_completions, recipes_tbl, programs,
                   program_stats, recipe_stats, run_configs, kpi_minute_recipes,
                   kpi_minute_combined, kpi_totals, recipes, gate_to_recipe,
                   program_id, assignments_json, program_assignments,
                   current_program_index, last_program_switch,
                   next_program_switch_delay, last_processed_time,
                   last_batch_id_processed, current_minute, minute_accumulator,
                   m4_cumulative, total_rejects_count, pieces_processed,
                   batches_detected, last_minute_check, polled_pieces, slept>>
    /\ UNCHANGED dwell_vars
    /\ UNCHANGED reset_requests
    /\ UNCHANGED import_vars
    /\ UNCHANGED client_vars

\* process_piece(piece) raises: nothing in process_piece or around the call
\* in run() catches it, so it leaves the `while self.running` loop.
ProcessPieceRaised ==
    /\ pc = "pieces"
    /\ polled_pieces # <<>>
    /\ pc' = "raised"
    /\ UNCHANGED <<now, pieces_db, batch_completions, recipes_tbl, programs,
                   program_stats, recipe_stats, run_configs, kpi_minute_recipes,
                   kpi_minute_combined, kpi_totals, recipes, gate_to_recipe,
                   program_id, assignments_json, program_assignments,
                   current_program_index, last_program_switch,
                   next_program_switch_delay, last_processed_time,
                   last_batch_id_processed, current_minute, minute_accumulator,
                   m4_cumulative, total_rejects_count, pieces_processed,
                   batches_detected, last_minute_check, polled_pieces,
                   completed_batches, slept>>
    /\ UNCHANGED dwell_vars
    /\ UNCHANGED reset_requests
    /\ UNCHANGED import_vars
    /\ UNCHANGED client_vars

\* KeyboardInterrupt arrives while the loop is in time.sleep(60.0), where it
\* spends its time: `except KeyboardInterrupt`.
Interrupt ==
    /\ pc = "sleep"
    /\ pc' = "interrupted"
    /\ UNCHANGED <<now, pieces_db, batch_completions, recipes_tbl, programs,
                   program_stats, recipe_stats, run_configs, kpi_minute_recipes,
                   kpi_minute_combined, kpi_totals, recipes, gate_to_recipe,
                   program_id, assignments_json, program_assignments,
                   current_program_index, last_program_switch,
                   next_program_switch_delay, last_processed_time,
                   last_batch_id_processed, current_minute, minute_accumulator,
                   m4_cumulative, total_rejects_count, pieces_processed,
                   batches_detected, last_minute_check, polled_pieces,
                   completed_batches, slept>>
    /\ UNCHANGED dwell_vars
    /\ UNCHANGED reset_requests
    /\ UNCHANGED import_vars
    /\ UNCHANGED client_vars

\* The mutation of finally_flush that leaves the open window alone.
finally_no_flush(acc, g2r, rcp, pid, cum, rejects_before) ==
    [recipe_rows |-> <<>>, combined_rows |-> <<>>,
     total_rejects_count |-> rejects_before, totals_rows |-> <<>>,
     m4_cumulative |-> cum, minute_accumulator |-> acc]

\* run(): `finally: if self.minute_accumulator: self.process_minute_kpis()`,
\* with acc the Option holding the open window.
finally_flush(acc, g2r, rcp, pid, cum, rejects_before) ==
    IF acc # <<>>
    THEN LET k == process_minute_kpis(acc[1], g2r, rcp, pid, cum, rejects_before)
         IN  [recipe_rows |-> k.recipe_rows, combined_rows |-> <<k.combined_row>>,
              total_rejects_count |-> k.total_rejects_count,
              totals_rows |-> k.totals_rows, m4_cumulative |-> k.m4_cumulative,
              minute_accumulator |-> <<>>]
    ELSE [recipe_rows |-> <<>>, combined_rows |-> <<>>,
          total_rejects_count |-> rejects_before, totals_rows |-> <<>>,
          m4_cumulative |-> cum, minute_accumulator |-> acc]

\* run(): the finally block, the flush and then disconnect(); an exception
\* other than KeyboardInterrupt goes on to the caller of run().
Finally ==
    /\ pc \in {"interrupted", "raised"}
    /\ LET f == finally_flush(minute_accumulator, gate_to_recipe, recipes,
                              program_id, m4_cumulative, total_rejects_count)
       IN  /\ kpi_minute_recipes' = kpi_minute_recipes \o f.recipe_rows
           /\ kpi_minute_combined' = kpi_minute_combined \o f.combined_rows
           /\ total_rejects_count' = f.total_rejects_count
           /\ kpi_totals' = kpi_totals \o f.totals_rows
           /\ m4_cumulative' = f.m4_cumulative
           /\ minute_accumulator' = f.minute_accumulator
    /\ pc' = IF pc = "interrupted" THEN "stopped" ELSE "crashed"
    /\ UNCHANGED <<now, pieces_db, batch_completions, recipes_tbl, programs,
                   program_stats, recipe_stats, run_configs, recipes, gate_to_recipe,
                   program_id, assignments_json, program_assignments,
                   current_program_index, last_program_switch,
                   next_program_switch_delay, last_processed_time,
                   last_batch_id_processed, current_minute, pieces_processed,
                   batches_detected, last_minute_check, polled_pieces,
                   completed_batches, slept>>
    /\ UNCHANGED dwell_vars
    /\ UNCHANGED reset_requests
    /\ UNCHANGED import_vars
    /\ UNCHANGED client_vars

NextFaults ==
    \/ IngestPiece
    \/ CompleteBatch
    \/ LoadRecipes
    \/ Recover
    \/ RecoverAborted
    \/ LoadAssignments
    \/ PollNewPieces
    \/ PollNewPiecesFailed
    \/ ProcessPiece
    \/ ProcessPieceRaised
    \/ PollCompletedBatches
    \/ PollCompletedBatchesFailed
    \/ ProcessCompletedBatch
    \/ MinuteRollover
    \/ CheckAndSwitchProgram
    \/ Tick
    \/ Wake
    \/ Interrupt
    \/ Finally

SpecFaults == InitFaults /\ [][NextFaults]_vars

\* ------------------------------------------------- one window, any batches
\* The batches of one minute may be of any of these <<weight_g, pieces>>,
\* under any of these recipes on gate 1.
MaxEvalBatches == 2
EvalBatchKinds == {<<1200, 12>>, <<520, 10>>, <<390, 8>>, <<6, 2>>, <<2, 1>>}
EvalRecipeNames == {RW, RW0, RK, RX, RM, RX10, RM10, RBad}

\* The worker started at StartTime on a fresh store with recipes n1 and n2
\* in the catalog and on gates 1 and 2; batches completed during its first
\* sleep, and its second iteration has just polled them.
InitEval ==
    /\ now = StartTime + TicksPerMinute
    /\ pieces_db = <<>>
    /\ \E n1 \in EvalRecipeNames, n2 \in {RW, RX} :
          /\ n1 # n2
          /\ recipes_tbl = <<n1, n2>>
          /\ recipes = [i \in 1 .. 2 |-> from_db_row(i, recipes_tbl[i])]
          /\ assignments_json = <<Config(0, (1 :> n1 @@ 2 :> n2)),
                                  Config(TicksPerMinute, (1 :> RW))>>
    /\ \E n \in 0 .. MaxEvalBatches :
          \E f \in [1 .. n -> (Gates \ {0}) \X EvalBatchKinds] :
             batch_completions =
                 [i \in 1 .. n |-> BatchRow(i, f[i][1], f[i][2][1], f[i][2][2],
                                            StartTime, 1, f[i][1])]
    /\ programs = <<ProgramName(StartTime)>>
    /\ program_stats = (1 :> ZeroStats(StartTime))
    /\ recipe_stats = EmptyMap
    /\ run_configs = <<[program_id |-> 1, assignments |-> (1 :> 1 @@ 2 :> 2)]>>
    /\ kpi_minute_recipes = <<>>
    /\ kpi_minute_combined = <<>>
    /\ kpi_totals = <<>>
    /\ gate_to_recipe = (1 :> 1 @@ 2 :> 2)
    /\ program_id = 1
    /\ program_assignments = assignments_json
    /\ current_program_index = 0
    /\ last_program_switch = StartTime
    /\ next_program_switch_delay = TicksPerMinute
    /\ last_processed_time = now
    /\ last_batch_id_processed = Len(batch_completions)
    /\ current_minute = NULL
    /\ minute_accumulator = <<>>
    /\ m4_cumulative = EmptyMap
    /\ total_rejects_count = 0
    /\ pieces_processed = 0
    /\ batches_detected = 0
    /\ last_minute_check = MinuteBucket(StartTime)
    /\ polled_pieces = <<>>
    /\ completed_batches = batch_completions
    /\ slept = 0
    /\ pc = "batches"
    /\ last_batch_time = EmptyMap
    /\ gate_dwell_times = <<>>
    /\ gate_dwell_accumulators = EmptyMap
    /\ reset_requests = <<>>
    /\ ImportIdle
    /\ ClientIdle

\* The rest of that iteration: the batches enter the window, the rollover
\* check emits it, and the due switch recomputes the program's totals.
NextEval ==
    \/ ProcessCompletedBatch
    \/ MinuteRollover
    \/ CheckAndSwitchProgram

SpecEval == InitEval /\ [][NextEval]_vars

\* ------------------------------------------------- batches in close order
\* The seconds between one batch and the next.
DwellDeltas == {10, 20, 30}

\* The worker started at StartTime on a fresh store, recipes RW and RX on
\* gates 1 and 2.  MaxDwellBatches batches on any gates, the reject gate
\* included, follow one another at DwellDeltas: all of them completed during
\* the first sleep and the second iteration has just polled them, or the
\* last two complete only after that poll, once the iteration is under way.
InitDwell ==
    /\ now = StartTime + TicksPerMinute
    /\ pieces_db = <<>>
    /\ recipes_tbl = <<RW, RX>>
    /\ recipes = [i \in 1 .. 2 |-> from_db_row(i, recipes_tbl[i])]
    /\ assignments_json = <<Config(0, (1 :> RW @@ 2 :> RX)),
                            Config(TicksPerMinute, (1 :> RW))>>
    /\ gate_to_recipe = (1 :> 1 @@ 2 :> 2)
    /\ \E k \in {MaxDwellBatches - 2, MaxDwellBatches} :
       \E f \in [1 .. MaxDwellBatches -> Gates] :
       \E d \in [1 .. MaxDwellBatches -> DwellDeltas] :
          LET first(i) == IF i <= k THEN 1 ELSE k + 1
              base(i) == IF i <= k THEN StartTime * SecondsPerTick
                         ELSE now * SecondsPerTick
              at(i) == base(i)
                       + SeqSum([j \in 1 .. i - first(i) |-> d[first(i) + j]])
          IN  /\ \A i \in 1 .. MaxDwellBatches :
                    /\ at(i) <= (IF i <= k THEN now ELSE now + 1) * SecondsPerTick
                    /\ i \in {1, k + 1} => d[i] = 10
              /\ batch_completions =
                    [i \in 1 .. MaxDwellBatches |->
                       [BatchRow(i, f[i], 6, 2, at(i) \div SecondsPerTick, 1,
                                 Get(gate_to_recipe, f[i], NULL))
                        EXCEPT !.second = at(i) % SecondsPerTick]]
              /\ last_batch_id_processed = k
              /\ completed_batches = SubSeq(batch_completions, 1, k)
    /\ programs = <<ProgramName(StartTime)>>
    /\ program_stats = (1 :> ZeroStats(StartTime))
    /\ recipe_stats = EmptyMap
    /\ run_configs = <<[program_id |-> 1, assignments |-> (1 :> 1 @@ 2 :> 2)]>>
    /\ kpi_minute_recipes = <<>>
    /\ kpi_minute_combined = <<>>
    /\ kpi_totals = <<>>
    /\ program_id = 1
    /\ program_assignments = assignments_json
    /\ current_program_index = 0
    /\ last_program_switch = StartTime
    /\ next_program_switch_delay = TicksPerMinute
    /\ last_processed_time = now
    /\ current_minute = NULL
    /\ minute_accumulator = <<>>
    /\ m4_cumulative = EmptyMap
    /\ total_rejects_count = 0
    /\ last_batch_time = EmptyMap
    /\ gate_dwell_times = <<>>
    /\ gate_dwell_accumulators = EmptyMap
    /\ pieces_processed = 0
    /\ batches_detected = 0
    /\ last_minute_check = MinuteBucket(StartTime)
    /\ polled_pieces = <<>>
    /\ slept = 0
    /\ pc = "batches"
    /\ reset_requests = <<>>
    /\ ImportIdle
    /\ ClientIdle

\* The rest of that iteration, with the due switch, the sleep and the next
\* iteration, which polls the batches that completed meanwhile.
NextDwell ==
    \/ ProcessCompletedBatch
    \/ MinuteRollover
    \/ CheckAndSwitchProgram
    \/ Tick
    \/ Wake
    \/ PollNewPieces
    \/ PollCompletedBatches

SpecDwell == InitDwell /\ [][NextDwell]_vars

\* ------------------------------------------------------ gate reset notice
\* reset notices a run may send
MaxResets == 1

\* What requests.post and raise_for_status can come to.
ResetOutcomes == {"ok", "http_error", "connection_error", "timeout", "error"}

\* The mutation of notify_gate_reset that catches HTTP and connection errors
\* only.
notify_gate_reset_uncaught(outcome, at) ==
    IF outcome \in {"timeout", "error"} THEN "raised" ELSE at

\* notify_gate_reset(gate): where its caller continues.  Every outcome is
\* caught by one of the three except clauses (a timeout and any other
\* exception by `except Exception`), so the call returns to the caller.
notify_gate_reset(outcome, at) == at

\* notify_gate_reset(gate) called between two steps of the worker.
NotifyGateReset ==
    /\ Len(reset_requests) < MaxResets
    /\ \E gate \in Gates, outcome \in ResetOutcomes :
          /\ reset_requests' = Append(reset_requests,
                                      [gate |-> gate, outcome |-> outcome])
          /\ pc' = notify_gate_reset(outcome, pc)
    /\ UNCHANGED dwell_vars
    /\ UNCHANGED import_vars
    /\ UNCHANGED client_vars
    /\ UNCHANGED <<now, pieces_db, batch_completions, recipes_tbl, programs,
                   program_stats, recipe_stats, run_configs, kpi_minute_recipes,
                   kpi_minute_combined, kpi_totals, recipes, gate_to_recipe,
                   program_id, assignments_json, program_assignments,
                   current_program_index, last_program_switch,
                   next_program_switch_delay, last_processed_time,
                   last_batch_id_processed, current_minute, minute_accumulator,
                   m4_cumulative, total_rejects_count, pieces_processed,
                   batches_detected, last_minute_check, polled_pieces,
                   completed_batches, slept>>

\* The second iteration of a worker with recipes RW and RX has just polled
\* the one batch of its first sleep.
InitNotify ==
    /\ InitEval
    /\ recipes_tbl = <<RW, RX>>
    /\ Len(batch_completions) = 1

\* The rest of that iteration, with a reset notice at any point of it.
NextNotify ==
    \/ ProcessCompletedBatch
    \/ MinuteRollover
    \/ CheckAndSwitchProgram
    \/ NotifyGateReset

SpecNotify == InitNotify /\ [][NextNotify]_vars

\* --------------------------------------------------------------- properties
\* C1: recovery of a crashed program with batches.  For every program that
\* recovery finds with a null end timestamp and at least one stored batch,
\* after recover_incomplete_programs its end timestamp is the time T of its
\* last batch and its stored totals count every one of its batches, the one
\* completed exactly at T included.
C1_RecoveryCountsAllBatches ==
    [][pc = "recover" =>
        \A p \in DOMAIN program_stats :
            (/\ program_stats[p].end_ts = NULL
             /\ p \in 1 .. Len(programs)
             /\ ProgramBatchIdx(batch_completions, p) # {})
            => LET mine == SelectSeq(batch_completions, LAMBDA b : b.program_id = p)
               IN  /\ program_stats'[p].end_ts = LastBatchTime(batch_completions, p)
                   /\ program_stats'[p].total_items_batched =
                          SeqSum([i \in 1 .. Len(mine) |-> mine[i].pieces])]_vars

\* C2: recovery of an empty program.  For every program that recovery finds
\* with a null end timestamp and no stored batch, after the recovery pass its
\* end timestamp is non-null and equal to its start timestamp and its totals
\* are zero.
C2_RecoveryEndsEmptyProgram ==
    [][pc = "recover" =>
        \A p \in DOMAIN program_stats :
            (/\ program_stats[p].end_ts = NULL
             /\ p \in 1 .. Len(programs)
             /\ ProgramBatchIdx(batch_completions, p) = {})
            => /\ program_stats'[p].end_ts # NULL
               /\ program_stats'[p].end_ts = program_stats[p].start_ts
               /\ program_stats'[p].total_batches = 0
               /\ program_stats'[p].total_items_batched = 0]_vars

\* C3: agreement of the two total computations.  When a program ends at a
\* switch and every stored batch of the program was counted once in the
\* incremental state (no window is open, each recipe's cum_actual is the
\* weight of the program's batches on its gates), the full-history recompute
\* stores for every recipe the filled-batch total and the giveaway weight
\* that m4_cumulative holds.
C3_RecomputeEqualsIncremental ==
    [][(/\ pc = "switch"
        /\ SwitchDue
        /\ minute_accumulator = <<>>
        /\ LET mine == SelectSeq(batch_completions,
                                 LAMBDA b : b.program_id = program_id)
           IN  /\ mine # <<>>
               /\ \A i \in 1 .. Len(mine) :
                     Get(gate_to_recipe, mine[i].gate, 0) \in DOMAIN m4_cumulative
               /\ \A rid \in DOMAIN m4_cumulative :
                     LET rb == SelectSeq(mine, LAMBDA b :
                                   b.gate \in GatesWithThisRecipe(gate_to_recipe, rid))
                     IN  m4_cumulative[rid].cum_actual =
                             SeqSum([i \in 1 .. Len(rb) |-> rb[i].weight_g]))
       => \A rid \in DOMAIN m4_cumulative :
             /\ <<program_id, rid>> \in DOMAIN recipe_stats'
             /\ recipe_stats'[<<program_id, rid>>].total_batches =
                    m4_cumulative[rid].total_batches
             /\ recipe_stats'[<<program_id, rid>>].total_giveaway_weight_g =
                    m4_cumulative[rid].cum_give]_vars

\* C4: window close on a later-minute event.  Whenever the open window is
\* replaced by a window of a later minute, the replaced window was emitted:
\* a combined per-minute row was written for it.
C4_LaterEventEmitsOpenWindow ==
    [][(/\ minute_accumulator # <<>>
        /\ minute_accumulator' # <<>>
        /\ minute_accumulator'[1].minute_start > minute_accumulator[1].minute_start)
       => Len(kpi_minute_combined') > Len(kpi_minute_combined)]_vars

\* C5: exactly-once minute emission.  No two per-minute recipe rows carry the
\* same program, recipe and minute.
C5_MinuteEmittedOnce ==
    \A i, j \in 1 .. Len(kpi_minute_recipes) :
        (/\ i # j
         /\ kpi_minute_recipes[i].program_id = kpi_minute_recipes[j].program_id
         /\ kpi_minute_recipes[i].recipe_id = kpi_minute_recipes[j].recipe_id)
        => kpi_minute_recipes[i].timestamp # kpi_minute_recipes[j].timestamp

\* C6: no gaps in the KPI series.  On every minute rollover the loop observes,
\* a combined per-minute row is written, and every recipe with cumulative
\* state in the program gets a cumulative row, events or not.
C6_RolloverAlwaysEmits ==
    [][(pc = "batches" /\ completed_batches = <<>> /\ MinuteRolledOver)
       => /\ Len(kpi_minute_combined') = Len(kpi_minute_combined) + 1
          /\ \A rid \in DOMAIN m4_cumulative :
                \E i \in Len(kpi_totals) + 1 .. Len(kpi_totals') :
                    kpi_totals'[i].recipe_id = rid]_vars

\* C7: bucketing by minute.  Every piece and batch counted in an emitted
\* window has a floor-to-minute timestamp equal to the window's minute key.
C7_EmittedEventsInTheirMinute ==
    [][(minute_accumulator # <<>>
            /\ Len(kpi_minute_combined') > Len(kpi_minute_combined))
       => LET acc == minute_accumulator[1]
          IN  \A g \in Gates :
                /\ \A i \in 1 .. Len(acc.pieces_by_gate[g]) :
                      MinuteBucket(acc.pieces_by_gate[g][i].timestamp)
                          = acc.minute_start
                /\ \A i \in 1 .. Len(acc.batches_by_gate[g]) :
                      MinuteBucket(acc.batches_by_gate[g][i].timestamp)
                          = acc.minute_start]_vars

\* C8: fan-out without double counting.  When a window is emitted, every
\* recipe assigned to two or more gates gets exactly one per-minute row whose
\* piece count, weight and batch count are the sums over its gates; if the
\* window holds a batch on its gates it gets exactly one cumulative row and
\* its cumulative weight grows by the weight of those batches, once.
C8_FanOutOneRecord ==
    [][(minute_accumulator # <<>>
            /\ Len(kpi_minute_combined') > Len(kpi_minute_combined))
       => LET acc == minute_accumulator[1]
          IN  \A rid \in {gate_to_recipe[g] : g \in DOMAIN gate_to_recipe \ {0}} :
                LET gates == {g \in DOMAIN gate_to_recipe \ {0} :
                                 gate_to_recipe[g] = rid}
                    gs    == SetToSeq(gates)
                    rows  == SelectSeq(
                                 SubSeq(kpi_minute_recipes',
                                        Len(kpi_minute_recipes) + 1,
                                        Len(kpi_minute_recipes')),
                                 LAMBDA r : r.recipe_id = rid)
                    tots  == SelectSeq(
                                 SubSeq(kpi_totals', Len(kpi_totals) + 1,
                                        Len(kpi_totals')),
                                 LAMBDA r : r.recipe_id = rid)
                    n_pieces  == SeqSum([i \in 1 .. Len(gs) |->
                                     Len(acc.pieces_by_gate[gs[i]])])
                    w_pieces  == SeqSum([i \in 1 .. Len(gs) |->
                                     SeqSum([k \in 1 .. Len(acc.pieces_by_gate[gs[i]]) |->
                                         acc.pieces_by_gate[gs[i]][k].weight_g])])
                    n_batches == SeqSum([i \in 1 .. Len(gs) |->
                                     Len(acc.batches_by_gate[gs[i]])])
                    w_batches == SeqSum([i \in 1 .. Len(gs) |->
                                     SeqSum([k \in 1 .. Len(acc.batches_by_gate[gs[i]]) |->
                                         acc.batches_by_gate[gs[i]][k].weight_g])])
                IN  Cardinality(gates) >= 2
                    => /\ Len(rows) = 1
                       /\ rows[1].pieces_processed = n_pieces
                       /\ rows[1].weight_processed_g = w_pieces
                       /\ rows[1].batches_min = n_batches
                       /\ n_batches > 0
                          => /\ Len(tots) = 1
                             /\ rid \in DOMAIN m4_cumulative'
                             /\ m4_cumulative'[rid].cum_actual =
                                    Get(m4_cumulative, rid,
                                        [cum_actual |-> 0]).cum_actual + w_batches]_vars

\* C9: a program switch closes the open window first.  Whenever the switch
\* fires while a window is open, the window is emitted with the ending
\* program's id and none is left open once the new program is active.
C9_SwitchClosesOpenWindow ==
    [][(pc = "switch" /\ SwitchDue /\ minute_accumulator # <<>>)
       => /\ minute_accumulator' = <<>>
          /\ Len(kpi_minute_combined') = Len(kpi_minute_combined) + 1
          /\ \A i \in Len(kpi_minute_recipes) + 1 .. Len(kpi_minute_recipes') :
                kpi_minute_recipes'[i].program_id = program_id]_vars

\* C10: closing totals before activation.  Whenever the switch fires and a
\* new program is activated, the ending program's end timestamp is non-null,
\* and of the programs started in this run at most one has a null end
\* timestamp.
C10_SwitchEndsTheProgram ==
    [][(pc = "switch" /\ SwitchDue /\ program_id' # program_id)
       => /\ program_stats'[program_id].end_ts # NULL
          /\ Cardinality({p \in DOMAIN program_stats' :
                            /\ program_stats'[p].end_ts = NULL
                            /\ program_stats'[p].start_ts >= StartTime}) <= 1]_vars

\* C11: cumulative state is monotonic and reset only at program start.  In
\* every step that does not begin a program, each recipe's filled-batch total,
\* actual weight and giveaway weight stay or grow; a step that begins a
\* program (the first assignment, or a switch that fires) leaves the
\* cumulative state empty.
C11_CumulativeMonotonic ==
    [][IF pc = "load" \/ (pc = "switch" /\ SwitchDue)
       THEN m4_cumulative' = EmptyMap
       ELSE \A rid \in DOMAIN m4_cumulative :
               /\ rid \in DOMAIN m4_cumulative'
               /\ m4_cumulative'[rid].total_batches >= m4_cumulative[rid].total_batches
               /\ m4_cumulative'[rid].cum_actual >= m4_cumulative[rid].cum_actual
               /\ m4_cumulative'[rid].cum_give >= m4_cumulative[rid].cum_give]_vars

\* A recipe's cumulative state grew over two emissions of one program, and
\* the switch that ended that program has reset it.
C11_Witness ==
    /\ \E i, j \in 1 .. Len(kpi_totals) :
          /\ i < j
          /\ kpi_totals[i].program_id = kpi_totals[j].program_id
          /\ kpi_totals[i].program_id # program_id
          /\ kpi_totals[i].recipe_id = kpi_totals[j].recipe_id
          /\ kpi_totals[i].total_batches < kpi_totals[j].total_batches
    /\ current_program_index > 0
    /\ m4_cumulative = EmptyMap

\* C12: unseen recipes become active.  When a window is emitted, every recipe
\* the active assignment gives a gate, whether it was in the catalog at
\* startup or was created by the assignment, gets a per-minute row, and a
\* cumulative row when the window holds a batch on one of its gates.
C12_UnseenRecipeAggregated ==
    [][(minute_accumulator # <<>>
            /\ Len(kpi_minute_combined') > Len(kpi_minute_combined))
       => \A g \in DOMAIN gate_to_recipe \ {0} :
             /\ \E i \in Len(kpi_minute_recipes) + 1 .. Len(kpi_minute_recipes') :
                   kpi_minute_recipes'[i].recipe_id = gate_to_recipe[g]
             /\ minute_accumulator[1].batches_by_gate[g] # <<>>
                => \E i \in Len(kpi_totals) + 1 .. Len(kpi_totals') :
                      kpi_totals'[i].recipe_id = gate_to_recipe[g]]_vars

\* C13: idempotent output writes.  The cumulative rows are keyed by program,
\* recipe and minute: however often a minute is processed, kpi_totals holds
\* at most one row per key.
C13_OneTotalsRowPerKey ==
    \A i, j \in 1 .. Len(kpi_totals) :
        (/\ kpi_totals[i].program_id = kpi_totals[j].program_id
         /\ kpi_totals[i].recipe_id = kpi_totals[j].recipe_id
         /\ kpi_totals[i].timestamp = kpi_totals[j].timestamp)
        => i = j

\* C14: recovery isolation.  The recovery pass never raises to run(), and when
\* the processing of one incomplete program fails (program lookup, batch
\* lookup or totals computation), every other incomplete program found at
\* startup is still processed in the same pass: at most one program that a
\* pass without failure would have ended is left without an end timestamp.
C14_RecoveryIsolation ==
    [][pc = "recover"
       => /\ pc' = "load"
          /\ Cardinality({p \in DOMAIN program_stats :
                /\ program_stats[p].end_ts = NULL
                /\ program_stats'[p].end_ts = NULL
                /\ recover_incomplete_programs(program_stats, recipe_stats,
                       run_configs, batch_completions, recipes_tbl,
                       programs).program_stats[p].end_ts # NULL}) <= 1]_vars

\* C15: recovery reconstruction.  When no run configuration exists for a
\* program being finalized, the gate-to-recipe mapping used for its totals is
\* exactly the distinct (gate, recipe id) pairs of that program's own batch
\* records with a non-null recipe id; when that set is empty the program is
\* marked ended and no recipe totals are written for it.
C15_ReconstructionFromOwnBatches ==
    [][(pc = "recover" /\ pc' = "load")
       => \A p \in DOMAIN program_stats :
             (/\ program_stats[p].end_ts = NULL
              /\ p \in 1 .. Len(programs)
              /\ LatestConfigId(run_configs, p) = 0)
             => LET recon == ReconRows(batch_completions, p)
                    written == {k \in DOMAIN recipe_stats' : k[1] = p}
                IN  IF recon = {}
                    THEN program_stats'[p].end_ts # NULL /\ written = {}
                    ELSE \A k \in written :
                            /\ k[2] \in {row[2] : row \in recon}
                            /\ recipe_stats'[k].gates_assigned =
                                   GatesOfRecipe(recon, k[2])]_vars

\* C16: loop survival.  An exception raised in a single step of one
\* poll-loop iteration (polling pieces, processing a piece, polling or
\* processing a batch, closing a window, checking the program switch) does
\* not terminate the loop: run() never ends with an exception.
C16_LoopSurvivesException == pc \notin {"raised", "crashed"}

\* C17: flush on shutdown.  Whenever the poll loop stops, by an interrupt or
\* by an exception, the finally block ends with no window open, and a window
\* that was open when the loop stopped is emitted (its combined row is the
\* one row added) before the connections are closed and run() returns.
C17_FlushOnShutdown ==
    [][(pc = "interrupted" \/ pc = "raised")
       => (/\ pc' \in {"stopped", "crashed"}
           /\ minute_accumulator' = <<>>
           /\ minute_accumulator # <<>>
              => /\ Len(kpi_minute_combined') = Len(kpi_minute_combined) + 1
                 /\ kpi_minute_combined'[Len(kpi_minute_combined')].timestamp =
                        minute_accumulator[1].minute_start
           /\ minute_accumulator = <<>>
              => kpi_minute_combined' = kpi_minute_combined)]_vars

\* The worker was interrupted in its first sleep, before any rollover could
\* emit: the one combined row is the flush of the window the startup batches
\* opened.
C17_Witness ==
    /\ pc = "stopped"
    /\ now = StartTime
    /\ Len(kpi_minute_combined) = 1
    /\ minute_accumulator = <<>>
    /\ batches_detected > 0

\* C18: batch cursor.  Within one run the batch cursor never decreases, each
\* poll returns exactly the stored batch records with id greater than the
\* cursor, in ascending id order, and moves the cursor to the last of them, so
\* no batch record is handed to the aggregator more than once.
C18_BatchCursor ==
    [][/\ last_batch_id_processed' >= last_batch_id_processed
       /\ (pc = "pieces" /\ pc' = "batches")
          => LET new == {i \in 1 .. Len(batch_completions) :
                            batch_completions[i].id > last_batch_id_processed}
             IN  /\ Len(completed_batches') = Cardinality(new)
                 /\ \A i \in new : \E k \in 1 .. Len(completed_batches') :
                        completed_batches'[k] = batch_completions[i]
                 /\ \A k \in 1 .. Len(completed_batches') :
                        /\ completed_batches'[k].id > last_batch_id_processed
                        /\ completed_batches'[k].id <= last_batch_id_processed'
                        /\ k > 1 => completed_batches'[k - 1].id
                                        < completed_batches'[k].id
       /\ (pc = "batches" /\ pc' = "batches")
          => /\ completed_batches' = Tail(completed_batches)
             /\ batches_detected' = batches_detected + 1]_vars

\* A second poll returned the one batch stored since the first poll, which
\* had returned the batches of the earlier run.
C18_Witness ==
    /\ pc = "batches"
    /\ now > StartTime
    /\ batches_detected > 0
    /\ Len(completed_batches) = 1
    /\ completed_batches[1].id = batches_detected + 1
    /\ last_batch_id_processed = completed_batches[1].id

\* C19: pieces consumed exactly once.  Across successful and failed piece
\* polls the polled intervals are contiguous from the first poll's start, a
\* failed poll does not move the time cursor, and so, once the pieces of a
\* poll are processed, the aggregator has received one delivery for every
\* piece stamped between the first poll's start and the end of the last
\* successful poll, and none before a poll succeeded.
C19_PiecesConsumedOnce ==
    pc \in {"batches", "switch", "sleep"}
    => pieces_processed =
          IF last_processed_time = NULL THEN 0
          ELSE Cardinality({i \in 1 .. Len(pieces_db) :
                  /\ pieces_db[i].timestamp >= StartTime - FirstPollLookback
                  /\ pieces_db[i].timestamp < last_processed_time})

\* C20: giveaway is never negative.  For every recipe policy and every set
\* of batches the giveaway weight computed per minute, cumulatively and over
\* the full history is >= 0, and a giveaway percentage is 0 when its
\* denominator (actual weight + giveaway weight) is 0.
C20_GiveawayNeverNegative ==
    /\ \A i \in 1 .. Len(kpi_minute_recipes) :
          /\ kpi_minute_recipes[i].w_give >= 0
          /\ kpi_minute_recipes[i].giveaway_pct >= 0
          /\ kpi_minute_recipes[i].denom = 0 => kpi_minute_recipes[i].giveaway_pct = 0
    /\ \A i \in 1 .. Len(kpi_minute_combined) :
          /\ kpi_minute_combined[i].giveaway_pct >= 0
          /\ kpi_minute_combined[i].batches_min = 0
             => kpi_minute_combined[i].giveaway_pct = 0
    /\ \A rid \in DOMAIN m4_cumulative :
          m4_cumulative[rid].cum_give >= 0
    /\ \A i \in 1 .. Len(kpi_totals) :
          /\ kpi_totals[i].giveaway_g_per_batch >= 0
          /\ kpi_totals[i].giveaway_pct_avg >= 0
    /\ \A k \in DOMAIN recipe_stats : recipe_stats[k].total_giveaway_weight_g >= 0
    /\ \A p \in DOMAIN program_stats : program_stats[p].total_giveaway_weight_g >= 0

\* A minute of the count-based recipe whose one batch weighs less than its
\* target was emitted with giveaway 0, after a minute without any batch was
\* emitted with percentage 0 for its zero denominator.
C20_Witness ==
    /\ \E i \in 1 .. Len(kpi_minute_recipes) :
          /\ kpi_minute_recipes[i].recipe_name = RX
          /\ kpi_minute_recipes[i].batches_min = 1
          /\ kpi_minute_recipes[i].denom = 2
          /\ kpi_minute_recipes[i].w_give = 0
    /\ \E i \in 1 .. Len(kpi_minute_combined) :
          /\ kpi_minute_combined[i].batches_min = 0
          /\ kpi_minute_combined[i].giveaway_pct = 0
    /\ \E k \in DOMAIN recipe_stats : recipe_stats[k].total_giveaway_weight_g = 0

\* C21: evaluator output range.  For every batch in the open window and the
\* recipe of its gate, the filled-batch evaluator of the per-minute totals
\* and the one of the full-history recompute return a fill fraction in
\* [0, 1] and a target weight >= 0.
C21_EvaluatorRange ==
    minute_accumulator # <<>>
    => \A g \in DOMAIN gate_to_recipe \ {0} :
          gate_to_recipe[g] \in DOMAIN recipes
          => LET r == recipes[gate_to_recipe[g]]
                 t == ParseTotalsSpec(r.recipe_id, r.recipe_name)
                 bts == minute_accumulator[1].batches_by_gate[g]
             IN  \A i \in 1 .. Len(bts) :
                    /\ M4Fill(r, bts[i].weight_g, bts[i].piece_count) \in 0 .. FullFill
                    /\ M4Target(r, bts[i].weight_g, bts[i].piece_count) >= 0
                    /\ TotalsFill(t, bts[i].weight_g, bts[i].piece_count)
                          \in 0 .. FullFill
                    /\ TotalsTarget(t, bts[i].weight_g, bts[i].piece_count) >= 0

\* C22: weight-bounded evaluation.  For a recipe without an exact/min count
\* policy, a batch of weight w gives fill = 1 and target = w when
\* batchMin <= 0; otherwise fill = 1 and target = batchMin if w >= batchMin,
\* else fill = w / batchMin and target = w.  With batchMin = 1000 and
\* w = 1200: fill 1, target 1000, giveaway 200.
C22_WeightBoundedEvaluation ==
    minute_accumulator # <<>>
    => \A g \in DOMAIN gate_to_recipe \ {0} :
          (/\ gate_to_recipe[g] \in DOMAIN recipes
           /\ recipes[gate_to_recipe[g]].bc_type = "None")
          => LET r == recipes[gate_to_recipe[g]]
                 bts == minute_accumulator[1].batches_by_gate[g]
             IN  \A i \in 1 .. Len(bts) :
                    LET w == bts[i].weight_g
                        fill == M4Fill(r, w, bts[i].piece_count)
                        target == M4Target(r, w, bts[i].piece_count)
                    IN  /\ target = M3Target(r, w, bts[i].piece_count)
                        /\ r.batch_min <= 0 => fill = FullFill /\ target = w
                        /\ (r.batch_min > 0 /\ w >= r.batch_min)
                           => fill = FullFill /\ target = r.batch_min
                        /\ (r.batch_min > 0 /\ w < r.batch_min)
                           => fill * r.batch_min = w * FullFill /\ target = w
                        /\ (r.batch_min = 1000 /\ w = 1200)
                           => /\ fill = FullFill
                              /\ target = 1000
                              /\ Giveaway(w, target) = 200

\* The window with the one 1200 g batch of the 1000 g recipe was emitted:
\* one filled batch, 1200 g actual, 200 g giveaway.
C22_Witness ==
    /\ pc = "switch"
    /\ recipes_tbl[1] = RK
    /\ 1 \in DOMAIN m4_cumulative
    /\ m4_cumulative[1] =
          [total_batches |-> FullFill, cum_actual |-> 1200, cum_give |-> 200]
    /\ \E i \in 1 .. Len(kpi_minute_recipes) :
          /\ kpi_minute_recipes[i].recipe_id = 1
          /\ kpi_minute_recipes[i].w_give = 200

\* C23: count-bounded evaluation.  For exact(n), fill = 1 if pieceCount = n
\* else pieceCount / n; for atLeast(n), fill = 1 if pieceCount >= n else
\* pieceCount / n; in both cases target = fill * n * pieceMin, whatever the
\* batch weight, in the per-minute totals and in the full-history recompute.
\* With exact(10), pieceMin = 50, pieceCount = 8, weight = 390: fill 0.8,
\* target 400, giveaway 0.
C23_CountBoundedEvaluation ==
    minute_accumulator # <<>>
    => \A g \in DOMAIN gate_to_recipe \ {0} :
          (/\ gate_to_recipe[g] \in DOMAIN recipes
           /\ recipes[gate_to_recipe[g]].bc_type \in {"exact", "min"}
           /\ recipes[gate_to_recipe[g]].bc_val > 0)
          => LET r == recipes[gate_to_recipe[g]]
                 t == ParseTotalsSpec(r.recipe_id, r.recipe_name)
                 n == r.bc_val
                 bts == minute_accumulator[1].batches_by_gate[g]
             IN  \A i \in 1 .. Len(bts) :
                    LET c == bts[i].piece_count
                        w == bts[i].weight_g
                        fill == M4Fill(r, w, c)
                        target == M4Target(r, w, c)
                    IN  /\ fill = TotalsFill(t, w, c)
                        /\ target = TotalsTarget(t, w, c)
                        /\ (r.bc_type = "exact" /\ c = n) => fill = FullFill
                        /\ (r.bc_type = "exact" /\ c # n) => fill * n = c * FullFill
                        /\ (r.bc_type = "min" /\ c >= n) => fill = FullFill
                        /\ (r.bc_type = "min" /\ c < n) => fill * n = c * FullFill
                        /\ target * FullFill = fill * n * r.piece_min
                        /\ (r.bc_type = "exact" /\ n = 10 /\ r.piece_min = 50
                            /\ c = 8 /\ w = 390)
                           => /\ fill * 10 = 8 * FullFill
                              /\ target = 400
                              /\ Giveaway(w, target) = 0

\* The window with the one batch of 8 pieces, 390 g of the exact(10) recipe
\* was emitted: 0.8 filled batches, 390 g actual, no giveaway.
C23_Witness ==
    /\ pc = "switch"
    /\ recipes_tbl[1] = RX10
    /\ 1 \in DOMAIN m4_cumulative
    /\ m4_cumulative[1] =
          [total_batches |-> (8 * FullFill) \div 10, cum_actual |-> 390,
           cum_give |-> 0]

\* C24: underfilled batches contribute zero giveaway.  For every recipe and
\* every set of batches of one window, the giveaway weight accumulated for
\* the recipe is the giveaway of its batches that are not underfilled: the
\* batches with fill fraction < 1 leave it unchanged.
C24_UnderfilledAddNoGiveaway ==
    (pc = "switch" /\ kpi_minute_combined # <<>>)
    => \A rid \in DOMAIN m4_cumulative :
          LET r == recipes[rid]
              gates == GatesWithThisRecipe(gate_to_recipe, rid)
              filled == SelectSeq(batch_completions,
                           LAMBDA b : /\ b.gate \in gates
                                      /\ M4Fill(r, b.weight_g, b.pieces) >= FullFill)
          IN  m4_cumulative[rid].cum_give =
                  Giveaway(SeqSum([i \in 1 .. Len(filled) |-> filled[i].weight_g]),
                           SeqSum([i \in 1 .. Len(filled) |->
                                     M4Target(r, filled[i].weight_g,
                                              filled[i].pieces)]))

\* C25: combined giveaway is a weighted ratio.  For every window that is
\* closed, the combined giveaway percentage is the sum, over the recipes
\* with a batch this minute, of the giveaway weight, divided by the sum over
\* the same recipes of actual weight + giveaway weight; it is 0 when no
\* recipe had a batch.
C25_CombinedGiveawayWeighted ==
    [][(minute_accumulator # <<>>
        /\ Len(kpi_minute_combined') = Len(kpi_minute_combined) + 1)
       => LET acc == minute_accumulator[1]
              assigned == {gate_to_recipe[g] : g \in DOMAIN gate_to_recipe \ {0}}
              Bts(rid) == Collect(acc.batches_by_gate,
                                  SetToSeq(GatesWithThisRecipe(gate_to_recipe, rid)))
              with == SetToSeq({rid \in assigned :
                                   rid \in 1 .. Len(recipes_tbl) /\ Bts(rid) # <<>>})
              Actual(rid) == SeqSum([i \in 1 .. Len(Bts(rid)) |-> Bts(rid)[i].weight_g])
              Target(rid) ==
                  SeqSum([i \in 1 .. Len(Bts(rid)) |->
                            M3Target(from_db_row(rid, recipes_tbl[rid]),
                                     Bts(rid)[i].weight_g, Bts(rid)[i].piece_count)])
              Give(rid) == Max(0, Actual(rid) - Target(rid))
              give_sum == SeqSum([i \in 1 .. Len(with) |-> Give(with[i])])
              denom_sum == SeqSum([i \in 1 .. Len(with) |->
                                     Actual(with[i]) + Give(with[i])])
          IN  kpi_minute_combined'[Len(kpi_minute_combined')].giveaway_pct =
                  IF denom_sum > 0 THEN (give_sum * 100) \div denom_sum ELSE 0]_vars

\* The dwell samples logged for gate g in program p, in the order fed.
DwellSamples(p, g) ==
    LET rows == SelectSeq(gate_dwell_times,
                          LAMBDA r : r.program_id = p /\ r.gate_number = g)
    IN  [i \in 1 .. Len(rows) |-> rows[i].dwell_time_sec]

\* C26: Welford accumulation.  For every program and gate, after the samples
\* logged for them were fed one at a time, the accumulator row has n = the
\* number of samples, mean = their arithmetic mean, M2 = the sum of their
\* squared deviations from that mean (n * M2 = n * sum x^2 - (sum x)^2) and
\* min / max = the smallest / largest sample; there is no row without a
\* sample; the samples 10, 20, 30 give mean 20 and M2 / (n - 1) = 100.
C26_WelfordAccumulation ==
    \A p \in 1 .. Len(programs), g \in Gates :
        LET xs == DwellSamples(p, g)
            n == Len(xs)
            sum == SeqSum(xs)
            squares == SeqSum([i \in 1 .. n |-> xs[i] * xs[i]])
            key == <<p, g>>
        IN  IF n = 0
            THEN key \notin DOMAIN gate_dwell_accumulators
            ELSE /\ key \in DOMAIN gate_dwell_accumulators
                 /\ LET a == gate_dwell_accumulators[key]
                    IN  /\ a.sample_count = n
                        /\ a.mean_sec * n = sum * WelfordScale
                        /\ a.m2_sec * n =
                              (n * squares - sum * sum) * WelfordScale * WelfordScale
                        /\ \A i \in 1 .. n : a.min_sec <= xs[i] /\ xs[i] <= a.max_sec
                        /\ \E i \in 1 .. n : a.min_sec = xs[i]
                        /\ \E i \in 1 .. n : a.max_sec = xs[i]
                        /\ xs = <<10, 20, 30>> =>
                              /\ a.mean_sec = 20 * WelfordScale
                              /\ a.m2_sec = 100 * (n - 1) * WelfordScale * WelfordScale

\* Gate 1 of program 1 was fed the samples 10, 20, 30.
C26_Witness ==
    /\ DwellSamples(1, 1) = <<10, 20, 30>>
    /\ <<1, 1>> \in DOMAIN gate_dwell_accumulators
    /\ gate_dwell_accumulators[<<1, 1>>].sample_count = 3
    /\ gate_dwell_accumulators[<<1, 1>>].min_sec = 10
    /\ gate_dwell_accumulators[<<1, 1>>].max_sec = 30

\* C27: dwell sampling rule.  A step that processes a completed batch logs
\* one dwell sample, for the batch's gate in the current program, exactly
\* when the gate is not the reject gate and a batch time is recorded for it,
\* and then records the batch's time for a non-reject gate; no other step
\* logs a sample; a step that changes the program forgets every recorded
\* batch time; and a gate with no batch time recorded has no sample in the
\* current program.  Hence the first batch of a gate in a program logs none
\* and the samples of a program and gate number max(0, batches - 1).
C27_DwellSamplingRule ==
    [][/\ IF batches_detected' = batches_detected + 1
          THEN LET b == Head(completed_batches)
                   g == b.gate
               IN  /\ IF g # 0 /\ g \in DOMAIN last_batch_time
                      THEN /\ Len(gate_dwell_times') = Len(gate_dwell_times) + 1
                           /\ SubSeq(gate_dwell_times', 1, Len(gate_dwell_times))
                                 = gate_dwell_times
                           /\ LET s == gate_dwell_times'[Len(gate_dwell_times')]
                              IN  /\ s.program_id = program_id
                                  /\ s.gate_number = g
                                  /\ s.dwell_time_sec =
                                        BatchSeconds(b) - last_batch_time[g]
                      ELSE gate_dwell_times' = gate_dwell_times
                   /\ DOMAIN last_batch_time' = DOMAIN last_batch_time \cup ({g} \ {0})
                   /\ g # 0 => last_batch_time'[g] = BatchSeconds(b)
          ELSE /\ gate_dwell_times' = gate_dwell_times
               /\ program_id' = program_id => last_batch_time' = last_batch_time
       /\ program_id' # program_id => DOMAIN last_batch_time' = {}
       /\ \A g \in Gates :
             g \notin DOMAIN last_batch_time' => DwellSamples(program_id', g) = <<>>
      ]_vars

\* The events of the gates S in a per-gate table of the window.
GateEvents(by_gate, S) == Collect(by_gate, SetToSeq(S))

\* C28: reject accounting.  In every window that is closed, the combined row
\* counts the pieces, their weight and the batches of the non-reject gates
\* only, every per-recipe row counts the pieces of the non-reject gates of its
\* recipe only, and rejects-this-minute is the number of gate-0 pieces of the
\* window; the cumulative reject counter grows by exactly that number, is
\* what the row reports, is zero after every program start and does not
\* change otherwise.
C28_RejectAccounting ==
    [][/\ (minute_accumulator # <<>>
           /\ Len(kpi_minute_combined') = Len(kpi_minute_combined) + 1)
          => LET acc == minute_accumulator[1]
                 row == kpi_minute_combined'[Len(kpi_minute_combined')]
                 kept == GateEvents(acc.pieces_by_gate, Gates \ {0})
                 rejected == acc.pieces_by_gate[0]
             IN  /\ row.pieces_processed = Len(kept)
                 /\ row.weight_processed_g =
                       SeqSum([i \in 1 .. Len(kept) |-> kept[i].weight_g])
                 /\ row.batches_min =
                       Len(GateEvents(acc.batches_by_gate, Gates \ {0}))
                 /\ row.rejects_per_min = Len(rejected)
                 /\ row.total_rejects_count = total_rejects_count + Len(rejected)
                 /\ total_rejects_count' = row.total_rejects_count
                 /\ \A i \in Len(kpi_minute_recipes) + 1 .. Len(kpi_minute_recipes') :
                       LET r == kpi_minute_recipes'[i]
                           own == {g \in DOMAIN gate_to_recipe \ {0} :
                                      gate_to_recipe[g] = r.recipe_id}
                       IN  /\ r.pieces_processed =
                                 Len(GateEvents(acc.pieces_by_gate, own))
                           /\ r.batches_min =
                                 Len(GateEvents(acc.batches_by_gate, own))
       /\ Len(run_configs') > Len(run_configs) => total_rejects_count' = 0
       /\ (Len(kpi_minute_combined') = Len(kpi_minute_combined)
           /\ Len(run_configs') = Len(run_configs))
          => total_rejects_count' = total_rejects_count
      ]_vars

\* The reject gate is assigned recipe RW like gate 1; two windows were
\* closed, each with one gate-0 piece: the second row reports one reject and
\* two in total, and no row counts a piece.
C28_Witness ==
    /\ 0 \in DOMAIN gate_to_recipe
    /\ Len(kpi_minute_combined) = 2
    /\ kpi_minute_combined[1].rejects_per_min = 1
    /\ kpi_minute_combined[2].rejects_per_min = 1
    /\ kpi_minute_combined[2].total_rejects_count = 2
    /\ kpi_minute_combined[2].pieces_processed = 0
    /\ total_rejects_count = 2
    /\ kpi_minute_recipes # <<>>
    /\ \A i \in 1 .. Len(kpi_minute_recipes) :
          kpi_minute_recipes[i].pieces_processed = 0

\* The name has the seven parts R_x_y_xx_yy_xxx_yyy with integers where the
\* worker reads integers.
NameParses(name) ==
    /\ Len(name) = 7
    /\ name[1] = "R"
    /\ \A i \in 2 .. 5 : IsInt(name[i])
    /\ (name[7] \in {"NA", "0", ""} \/ IsInt(name[7]))

\* C29: data inconsistency handling.  When a window is closed, the events of
\* a non-reject gate that has no recipe assigned, or whose recipe's stored
\* name does not parse, enter no per-recipe row and no cumulative state (no
\* row and no state for an unparsable recipe, and the rows written count only
\* the events of the other gates), while the combined row still counts them.
C29_InconsistentGatesExcluded ==
    [][(minute_accumulator # <<>>
        /\ Len(kpi_minute_combined') = Len(kpi_minute_combined) + 1)
       => LET acc == minute_accumulator[1]
              row == kpi_minute_combined'[Len(kpi_minute_combined')]
              Unparsable(rid) ==
                  rid \in 1 .. Len(recipes_tbl) /\ ~ NameParses(recipes_tbl[rid])
              sound == {g \in DOMAIN gate_to_recipe \ {0} :
                           ~ Unparsable(gate_to_recipe[g])}
              news == Len(kpi_minute_recipes) + 1 .. Len(kpi_minute_recipes')
          IN  /\ \A i \in news : ~ Unparsable(kpi_minute_recipes'[i].recipe_id)
              /\ SeqSum([j \in 1 .. Len(kpi_minute_recipes') - Len(kpi_minute_recipes)
                           |-> kpi_minute_recipes'[Len(kpi_minute_recipes) + j]
                                  .pieces_processed])
                    <= Len(GateEvents(acc.pieces_by_gate, sound))
              /\ SeqSum([j \in 1 .. Len(kpi_minute_recipes') - Len(kpi_minute_recipes)
                           |-> kpi_minute_recipes'[Len(kpi_minute_recipes) + j]
                                  .batches_min])
                    <= Len(GateEvents(acc.batches_by_gate, sound))
              /\ \A rid \in DOMAIN m4_cumulative' : ~ Unparsable(rid)
              /\ row.pieces_processed =
                    Len(GateEvents(acc.pieces_by_gate, Gates \ {0}))
              /\ row.batches_min =
                    Len(GateEvents(acc.batches_by_gate, Gates \ {0}))]_vars

\* The kpi_totals rows of recipe rid in program pid, in the order written.
TotalsRowsOf(rows, pid, rid) ==
    SelectSeq(rows, LAMBDA r : r.program_id = pid /\ r.recipe_id = rid)

\* C30: snapshot re-emission.  When a window is closed in which the gates of
\* a recipe hold no batch: if the recipe has cumulative state, that state is
\* left as it is and exactly one cumulative row is written for the recipe,
\* with the total batches, giveaway per batch and average giveaway percentage
\* of the row written for it before; if it has no cumulative state, no
\* cumulative row is written for it and it gets no state.
C30_SnapshotReemission ==
    [][(minute_accumulator # <<>>
        /\ Len(kpi_minute_combined') = Len(kpi_minute_combined) + 1)
       => LET acc == minute_accumulator[1]
              news == SubSeq(kpi_totals', Len(kpi_totals) + 1, Len(kpi_totals'))
          IN  \A rid \in 1 .. Len(recipes_tbl) :
                 LET own == {g \in DOMAIN gate_to_recipe \ {0} :
                                gate_to_recipe[g] = rid}
                     before == TotalsRowsOf(kpi_totals, program_id, rid)
                     mine == TotalsRowsOf(news, program_id, rid)
                 IN  GateEvents(acc.batches_by_gate, own) = <<>>
                     => IF rid \in DOMAIN m4_cumulative
                        THEN /\ rid \in DOMAIN m4_cumulative'
                             /\ m4_cumulative'[rid] = m4_cumulative[rid]
                             /\ Len(mine) = 1
                             /\ before # <<>>
                             /\ LET last == before[Len(before)]
                                IN  /\ mine[1].total_batches = last.total_batches
                                    /\ mine[1].giveaway_g_per_batch =
                                          last.giveaway_g_per_batch
                                    /\ mine[1].giveaway_pct_avg =
                                          last.giveaway_pct_avg
                        ELSE /\ mine = <<>>
                             /\ rid \notin DOMAIN m4_cumulative']_vars

\* A recipe with a filled batch in one window had none in a later window of
\* the same program: two cumulative rows with the same figures, the second
\* for a minute whose per-recipe row counts no batch.
C30_Witness ==
    \E i, j \in 1 .. Len(kpi_totals) :
       /\ i < j
       /\ kpi_totals[i].program_id = kpi_totals[j].program_id
       /\ kpi_totals[i].recipe_id = kpi_totals[j].recipe_id
       /\ kpi_totals[i].timestamp < kpi_totals[j].timestamp
       /\ kpi_totals[j].total_batches >= 1
       /\ kpi_totals[i].total_batches = kpi_totals[j].total_batches
       /\ kpi_totals[i].giveaway_g_per_batch = kpi_totals[j].giveaway_g_per_batch
       /\ kpi_totals[i].giveaway_pct_avg = kpi_totals[j].giveaway_pct_avg
       /\ \E k \in 1 .. Len(kpi_minute_recipes) :
             /\ kpi_minute_recipes[k].timestamp = kpi_totals[j].timestamp
             /\ kpi_minute_recipes[k].recipe_id = kpi_totals[j].recipe_id
             /\ kpi_minute_recipes[k].program_id = kpi_totals[j].program_id
             /\ kpi_minute_recipes[k].batches_min = 0

\* C31: cumulative row values.  Every cumulative row written when a window
\* is closed shows, for the recipe's cumulative state after that window,
\* the filled batches rounded to the nearest integer (a row differs from the
\* state by at most half a batch), giveaway weight / max(1, filled batches)
\* as giveaway per batch, and giveaway weight / (actual weight + giveaway
\* weight), as a percentage, 0 when that denominator is 0.
C31_CumulativeRowValues ==
    [][(minute_accumulator # <<>>
        /\ Len(kpi_minute_combined') = Len(kpi_minute_combined) + 1)
       => \A i \in Len(kpi_totals) + 1 .. Len(kpi_totals') :
             LET r == kpi_totals'[i]
                 c == m4_cumulative'[r.recipe_id]
                 denom == c.cum_actual + c.cum_give
             IN  /\ r.recipe_id \in DOMAIN m4_cumulative'
                 /\ 2 * (r.total_batches * FullFill - c.total_batches) <= FullFill
                 /\ 2 * (c.total_batches - r.total_batches * FullFill) <= FullFill
                 /\ r.giveaway_g_per_batch =
                       (c.cum_give * FullFill) \div Max(FullFill, c.total_batches)
                 /\ r.giveaway_pct_avg =
                       IF denom > 0 THEN (c.cum_give * 100) \div denom ELSE 0]_vars

C33_CatalogAppendOnly ==
    [][/\ Len(recipes_tbl') >= Len(recipes_tbl)
       /\ SubSeq(recipes_tbl', 1, Len(recipes_tbl)) = recipes_tbl
       /\ \A i, j \in 1 .. Len(recipes_tbl') :
             recipes_tbl'[i] = recipes_tbl'[j] => i = j
       /\ Len(run_configs') > Len(run_configs)
          => LET cfg == program_assignments'[current_program_index' + 1]
                 rows == run_configs'[Len(run_configs')].assignments
                 fresh == {cfg.gate_assignments[g] : g \in DOMAIN cfg.gate_assignments}
                             \ {recipes_tbl[i] : i \in 1 .. Len(recipes_tbl)}
             IN  /\ \A g \in DOMAIN rows :
                       /\ g \in DOMAIN cfg.gate_assignments
                       /\ rows[g] \in 1 .. Len(recipes_tbl')
                       /\ recipes_tbl'[rows[g]] = cfg.gate_assignments[g]
                       /\ gate_to_recipe'[g] = rows[g]
                 /\ Len(recipes_tbl') - Len(recipes_tbl) <= Cardinality(fresh)
       /\ Len(run_configs') = Len(run_configs) => recipes_tbl' = recipes_tbl
      ]_vars

\* A switch created recipe R_2_9_0_0_min_2 once although it assigned it to
\* gates 1 and 2, and both gates carry its id.
C33_Witness ==
    /\ recipes_tbl = <<RW, RX, RM>>
    /\ Len(run_configs) >= 2
    /\ gate_to_recipe = (1 :> 3 @@ 2 :> 3)

\* ------------------------------------------------ the offline replay (import)
\* build_m4_cumulative_per_minute: the recipe name parse.  split('_', 6)
\* unpacked into exactly seven parts, int(float(yyy)) for the count value;
\* a name with more underscores leaves them in the last part, which is then
\* no number.
ImportParseSpec(id, name) ==
    IF /\ Len(name) = 7
       /\ \A i \in 2 .. 5 : IsInt(name[i])
       /\ (name[7] \in {"NA", ""} \/ IsInt(name[7]))
    THEN [recipe_id |-> id, recipe_name |-> name,
          piece_min |-> IntOf[name[2]], piece_max |-> IntOf[name[3]],
          batch_min |-> IntOf[name[4]], batch_max |-> IntOf[name[5]],
          bc_type |-> IF name[6] = "NA" THEN "None" ELSE name[6],
          bc_val |-> IF name[7] \in {"NA", ""} THEN NULL ELSE IntOf[name[7]]]
    ELSE UnparsedSpec(id, name)

\* build_m4_cumulative_per_minute: this_fill of one batch, in FullFill units.
ImportFill(r, weight, piece_count) ==
    IF IsCountBased(r)
    THEN IF \/ (r.bc_type = "exact" /\ piece_count = r.bc_val)
            \/ (r.bc_type = "min" /\ piece_count >= r.bc_val)
         THEN FullFill
         ELSE (piece_count * FullFill) \div r.bc_val
    ELSE IF r.batch_min <= 0 THEN FullFill
         ELSE IF weight >= r.batch_min THEN FullFill
              ELSE (weight * FullFill) \div r.batch_min

\* build_m4_cumulative_per_minute: this_target of one batch, in grams.
ImportTarget(r, weight, piece_count) ==
    IF IsCountBased(r)
    THEN (ImportFill(r, weight, piece_count) * (r.bc_val * r.piece_min)) \div FullFill
    ELSE IF r.batch_min <= 0 THEN weight
         ELSE (ImportFill(r, weight, piece_count) * r.batch_min) \div FullFill

\* build_m4_cumulative_per_minute: the cumulative row after the first minute
\* of a program in which the recipe's gates completed the batches bts.  The
\* filled batches are kept as the fraction they are (float(cum_filled)),
\* here in FullFill units.
build_m4_cumulative_per_minute(id, name, bts) ==
    LET r == ImportParseSpec(id, name)
        filled == SeqSum([i \in 1 .. Len(bts) |->
                            ImportFill(r, bts[i].weight_g, bts[i].piece_count)])
        w_actual == SeqSum([i \in 1 .. Len(bts) |-> bts[i].weight_g])
        w_target == SeqSum([i \in 1 .. Len(bts) |->
                            ImportTarget(r, bts[i].weight_g, bts[i].piece_count)])
        cum_give == Max(0, w_actual - w_target)
    IN  [total_batches |-> filled,
         giveaway_g_per_batch |-> (cum_give * FullFill) \div Max(FullFill, filled),
         giveaway_pct_avg |-> Pct(cum_give, w_actual + cum_give)]

\* C34: live and import compute the same.  For every recipe with batches in
\* the first window of a program, each batch gets the same fill fraction and
\* target weight from the live evaluator and from the import evaluator, and
\* the cumulative row the live worker writes for that minute carries the
\* filled batches, giveaway per batch and giveaway percentage of the row the
\* import builds from the same batches.
C34_LiveEqualsImport ==
    [][(minute_accumulator # <<>> /\ m4_cumulative = EmptyMap
        /\ Len(kpi_minute_combined') = Len(kpi_minute_combined) + 1)
       => \A i \in Len(kpi_totals) + 1 .. Len(kpi_totals') :
             LET live == kpi_totals'[i]
                 rid  == live.recipe_id
                 bts  == M4Batches(minute_accumulator[1], gate_to_recipe, rid)
                 spec == ImportParseSpec(rid, recipes_tbl[rid])
                 imp  == build_m4_cumulative_per_minute(rid, recipes_tbl[rid], bts)
             IN  /\ \A k \in 1 .. Len(bts) :
                       /\ M4Fill(recipes[rid], bts[k].weight_g, bts[k].piece_count)
                            = ImportFill(spec, bts[k].weight_g, bts[k].piece_count)
                       /\ M4Target(recipes[rid], bts[k].weight_g, bts[k].piece_count)
                            = ImportTarget(spec, bts[k].weight_g, bts[k].piece_count)
                 /\ live.total_batches * FullFill = imp.total_batches
                 /\ live.giveaway_g_per_batch = imp.giveaway_g_per_batch
                 /\ live.giveaway_pct_avg = imp.giveaway_pct_avg]_vars

\* ---------------------------------------- the offline replay: store writes
MaxImportRuns == 2
MaxImportBatches == 2
MaxImportPieces == 1
ImportMinutes == {0, 1}
ImportBatchKinds == {<<1200, 12>>, <<520, 10>>, <<2, 1>>}

\* The row of windows.xlsx that is replayed: its start, and recipes RW and RX
\* configured on gates 1 and 2.
ImportStart == 0
ImportGateRecipes == (1 :> RW @@ 2 :> RX)

\* SqliteWriter.get_or_create_program: the programs table and the id.
get_or_create_program(progs, name) ==
    LET named == {i \in 1 .. Len(progs) : progs[i] = name}
    IN  IF named # {}
        THEN [programs |-> progs, id |-> CHOOSE i \in named : \A j \in named : i <= j]
        ELSE [programs |-> Append(progs, name), id |-> Len(progs) + 1]

RECURSIVE get_or_create_recipes(_, _)
\* SqliteWriter.get_or_create_recipe for each name in turn: the recipes table.
get_or_create_recipes(tbl, names) ==
    IF names = <<>> THEN tbl
    ELSE get_or_create_recipes(
            IF \E i \in 1 .. Len(tbl) : tbl[i] = Head(names) THEN tbl
            ELSE Append(tbl, Head(names)),
            Tail(names))

\* SELECT id FROM recipes WHERE name = ?
RecipeIdOf(tbl, name) == CHOOSE i \in 1 .. Len(tbl) : tbl[i] = name

\* compute_window_kpis: the totals of one recipe over the window (the fill
\* and target rule is the one of build_m4_cumulative_per_minute, repeated).
WindowRecipeTotals(slice, name, gates) ==
    LET r  == ImportParseSpec(0, name)
        b  == SelectSeq(slice.batches, LAMBDA x : x.gate \in gates)
        p  == SelectSeq(slice.pieces, LAMBDA x : x.gate \in gates)
        filled_equiv == SeqSum([i \in 1 .. Len(b) |->
                                  ImportFill(r, b[i].weight_g, b[i].piece_count)])
        w_target_sum == SeqSum([i \in 1 .. Len(b) |->
                                  ImportTarget(r, b[i].weight_g, b[i].piece_count)])
        w_actual_sum == SeqSum([i \in 1 .. Len(b) |-> b[i].weight_g])
    IN  [total_batches |-> filled_equiv,
         total_batched_weight_g |-> w_target_sum,
         total_giveaway_weight_g |-> Max(0, w_actual_sum - w_target_sum),
         total_items_batched |-> Len(p)]

\* compute_window_kpis: one minute of throughput over the events of `gates`
\* (batches created, pieces processed, weight of the pieces).
WindowMinute(slice, gates, piece_gates, m) ==
    LET b == SelectSeq(slice.batches, LAMBDA x : x.gate \in gates /\ x.minute = m)
        p == SelectSeq(slice.pieces, LAMBDA x : x.gate \in piece_gates /\ x.minute = m)
        w == SelectSeq(slice.pieces, LAMBDA x : x.gate \in gates /\ x.minute = m)
    IN  [batches_created |-> Len(b),
         pieces_processed |-> Len(p),
         weight_processed_g |-> SeqSum([i \in 1 .. Len(w) |-> w[i].weight_g])]

\* pd.date_range(t0, t1, freq='T'): every minute from the first event of the
\* window to the last.
FullMinutes(slice) ==
    LET ms == {slice.batches[i].minute : i \in 1 .. Len(slice.batches)}
                \cup {slice.pieces[i].minute : i \in 1 .. Len(slice.pieces)}
    IN  {m \in ImportMinutes : (\E a \in ms : a <= m) /\ (\E z \in ms : m <= z)}

\* INSERT ... ON CONFLICT DO UPDATE SET f = f + excluded.f (bump_recipe_totals,
\* upsert_program_minute, upsert_recipe_minute): the table afterwards.
AddRow(tbl, key, v, fields) ==
    IF key \in DOMAIN tbl
    THEN Put(tbl, key, [f \in fields |-> tbl[key][f] + v[f]])
    ELSE Put(tbl, key, v)

TotalsFields == {"total_batches", "total_batched_weight_g",
                 "total_giveaway_weight_g", "total_items_batched"}
MinuteFields == {"batches_created", "pieces_processed", "weight_processed_g"}

\* The values bump_recipe_totals binds: int() of each total.
IntTotals(t) == [t EXCEPT !.total_batches = t.total_batches \div FullFill]

\* main(): the import of the window into the store.  The program and the
\* recipes are looked up or created, a run config is added, and the totals
\* and the per-minute throughput of the window are written.
ImportWindow ==
    /\ pc = "stopped"
    /\ import_runs < MaxImportRuns
    /\ df_slice.batches \o df_slice.pieces # <<>>
    /\ LET prog   == get_or_create_program(programs, ProgramName(ImportStart))
           pid    == prog.id
           tbl    == get_or_create_recipes(recipes_tbl,
                        [i \in 1 .. 2 |-> ImportGateRecipes[i]])
           rids   == {RecipeIdOf(tbl, ImportGateRecipes[g]) : g \in DOMAIN ImportGateRecipes}
           gates(rid) == {g \in DOMAIN ImportGateRecipes :
                             RecipeIdOf(tbl, ImportGateRecipes[g]) = rid}
           per    == [rid \in rids |->
                        WindowRecipeTotals(df_slice, tbl[rid], gates(rid))]
           full   == FullMinutes(df_slice)
           end_ts == CHOOSE m \in full : \A n \in full : n <= m
       IN  /\ programs' = prog.programs
           /\ recipes_tbl' = tbl
           /\ run_configs' = Append(run_configs,
                  [program_id |-> pid,
                   assignments |-> [g \in DOMAIN ImportGateRecipes |->
                                      RecipeIdOf(tbl, ImportGateRecipes[g])]])
           /\ program_stats' = Put(program_stats, pid,
                  [start_ts |-> ImportStart, end_ts |-> end_ts,
                   total_batches |-> SumField(per, rids, "total_batches") \div FullFill,
                   total_batched_weight_g |->
                       SumField(per, rids, "total_batched_weight_g"),
                   total_giveaway_weight_g |->
                       SumField(per, rids, "total_giveaway_weight_g"),
                   total_items_batched |->
                       Len(SelectSeq(df_slice.pieces, LAMBDA x : x.gate # 0))])
           /\ recipe_stats' =
                  [k \in (DOMAIN recipe_stats) \cup {<<pid, rid>> : rid \in rids} |->
                      IF k[1] = pid /\ k[2] \in rids
                      THEN AddRow(recipe_stats, k, IntTotals(per[k[2]]), TotalsFields)[k]
                      ELSE recipe_stats[k]]
           /\ program_throughput_minute' =
                  [k \in (DOMAIN program_throughput_minute)
                           \cup {<<pid, m>> : m \in full} |->
                      IF k[1] = pid /\ k[2] \in full
                      THEN AddRow(program_throughput_minute, k,
                                  WindowMinute(df_slice, Gates \ {0}, Gates, k[2]),
                                  MinuteFields)[k]
                      ELSE program_throughput_minute[k]]
           /\ recipe_throughput_minute' =
                  [k \in (DOMAIN recipe_throughput_minute)
                           \cup {<<pid, rid, m>> : rid \in rids, m \in full} |->
                      IF k[1] = pid /\ k[2] \in rids /\ k[3] \in full
                      THEN AddRow(recipe_throughput_minute, k,
                                  WindowMinute(df_slice, gates(k[2]), gates(k[2]), k[3]),
                                  MinuteFields)[k]
                      ELSE recipe_throughput_minute[k]]
    /\ import_runs' = import_runs + 1
    /\ UNCHANGED df_slice
    /\ UNCHANGED client_vars
    /\ UNCHANGED dwell_vars
    /\ UNCHANGED reset_requests
    /\ UNCHANGED <<now, pieces_db, batch_completions, kpi_minute_recipes,
                   kpi_minute_combined, kpi_totals, recipes, gate_to_recipe,
                   program_id, assignments_json, program_assignments,
                   current_program_index, last_program_switch,
                   next_program_switch_delay, last_processed_time,
                   last_batch_id_processed, current_minute, minute_accumulator,
                   m4_cumulative, total_rejects_count, pieces_processed,
                   batches_detected, last_minute_check, polled_pieces,
                   completed_batches, slept, pc>>

\* A fresh store and a worker that was constructed and never run.
WorkerStopped ==
    /\ now = StartTime
    /\ pieces_db = <<>>
    /\ batch_completions = <<>>
    /\ recipes_tbl = <<>>
    /\ programs = <<>>
    /\ program_stats = EmptyMap
    /\ recipe_stats = EmptyMap
    /\ run_configs = <<>>
    /\ kpi_minute_recipes = <<>>
    /\ kpi_minute_combined = <<>>
    /\ kpi_totals = <<>>
    /\ recipes = EmptyMap
    /\ gate_to_recipe = EmptyMap
    /\ program_id = 1
    /\ assignments_json = FileSingle
    /\ program_assignments = <<>>
    /\ current_program_index = 0
    /\ last_program_switch = NULL
    /\ next_program_switch_delay = NULL
    /\ last_processed_time = NULL
    /\ last_batch_id_processed = 0
    /\ current_minute = NULL
    /\ minute_accumulator = <<>>
    /\ m4_cumulative = EmptyMap
    /\ total_rejects_count = 0
    /\ pieces_processed = 0
    /\ batches_detected = 0
    /\ last_minute_check = NULL
    /\ polled_pieces = <<>>
    /\ completed_batches = <<>>
    /\ slept = 0
    /\ pc = "stopped"
    /\ last_batch_time = EmptyMap
    /\ gate_dwell_times = <<>>
    /\ gate_dwell_accumulators = EmptyMap
    /\ reset_requests = <<>>

\* A fresh store, the worker not running, and a window of up to
\* MaxImportBatches batches on gates 1 and 2 and MaxImportPieces pieces on
\* any gate, in either minute.
InitImport ==
    /\ WorkerStopped
    /\ \E n \in 1 .. MaxImportBatches, k \in 0 .. MaxImportPieces :
          \E f \in [1 .. n -> (Gates \ {0}) \X ImportBatchKinds \X ImportMinutes],
             h \in [1 .. k -> Gates \X ImportMinutes] :
             df_slice = [batches |-> [i \in 1 .. n |->
                                        [gate |-> f[i][1], weight_g |-> f[i][2][1],
                                         piece_count |-> f[i][2][2], minute |-> f[i][3]]],
                         pieces |-> [i \in 1 .. k |->
                                        [gate |-> h[i][1], weight_g |-> 3,
                                         minute |-> h[i][2]]]]
    /\ import_runs = 0
    /\ program_throughput_minute = EmptyMap
    /\ recipe_throughput_minute = EmptyMap
    /\ ClientIdle

NextImport == ImportWindow

SpecImport == InitImport /\ [][NextImport]_vars

\* C35: idempotent re-aggregation.  Running the import again for the same
\* window and the same events leaves the stored program totals, per-recipe
\* totals and per-minute throughput rows of the program and of its recipes
\* as the first run stored them.
C35_ImportIdempotent ==
    [][(import_runs >= 1 /\ import_runs' = import_runs + 1)
       => /\ program_stats' = program_stats
          /\ recipe_stats' = recipe_stats
          /\ program_throughput_minute' = program_throughput_minute
          /\ recipe_throughput_minute' = recipe_throughput_minute]_vars

\* C36: assignment replacement on switch.  After a program switch has
\* activated a new assignment, the gate-to-recipe mapping the aggregator
\* uses is exactly the assignment stored for the new program: a gate of the
\* previous program that the new assignment does not name is mapped to no
\* recipe.
C36_AssignmentReplaced ==
    [][(pc = "switch" /\ SwitchDue /\ pc' = "sleep")
       => /\ run_configs' # <<>>
          /\ run_configs'[Len(run_configs')].program_id = program_id'
          /\ gate_to_recipe' = run_configs'[Len(run_configs')].assignments]_vars

\* The gate-to-recipe rows the full-history recompute uses for a program:
\* those of its latest stored config, else the ones reconstructed from its
\* batches.
TotalsMapping(pid) ==
    IF LatestConfigId(run_configs, pid) # 0
    THEN AssignmentRows(run_configs[LatestConfigId(run_configs, pid)])
    ELSE ReconRows(batch_completions, pid)

\* The recipe_stats keys of one program.
RecipeStatsOf(pid) == {k \in DOMAIN recipe_stats : k[1] = pid}

C38_StartupOrdering ==
    [][/\ (pc = "init" \/ pc = "recover")
          => /\ programs' = programs
             /\ run_configs' = run_configs
             /\ gate_to_recipe' = gate_to_recipe
             /\ minute_accumulator' = <<>>
             /\ m4_cumulative' = EmptyMap
             /\ pieces_processed' = 0
             /\ batches_detected' = 0
             /\ kpi_minute_recipes' = <<>>
             /\ kpi_minute_combined' = <<>>
             /\ kpi_totals' = <<>>
             /\ gate_dwell_times' = <<>>
       /\ pc' = "recover" => (pc = "init" \/ pc = "recover")
       /\ (pc = "load" /\ pc' # "load")
          => /\ program_id' \notin DOMAIN program_stats
             /\ program_id' \in DOMAIN program_stats'
             /\ program_stats'[program_id'].end_ts = NULL
             /\ program_stats'[program_id'].total_batches = 0
             /\ \A k \in DOMAIN recipe_stats' : k[1] # program_id'
             /\ \A p \in DOMAIN program_stats : program_stats'[p] = program_stats[p]]_vars

\* Startup is over: recovery has ended the crashed program 1 at its last
\* batch, and the program created afterwards is running.
C38_Witness ==
    /\ pc = "poll"
    /\ Len(programs) >= 2
    /\ program_id = Len(programs)
    /\ program_stats[1].end_ts # NULL
    /\ program_stats[1].total_batches > 0
    /\ program_stats[program_id].end_ts = NULL

\* ----------------------------------------------- a worker that has cycled
MaxCycleBatches == 1
CycleFiles == {FileSingle, FileOneSwitch, FileTwoSwitches}

\* The time configuration k (1-based) of the list was applied by a worker
\* started at StartTime that made every switch when it was due.
AppliedAt(file, k) == StartTime + (file[k].timestamp - file[1].timestamp)

RECURSIVE AppliedUpTo(_, _)
\* The store and the gate map after the first k configurations of the list
\* were applied on a fresh store with recipes RW and RX.
AppliedUpTo(file, k) ==
    IF k = 0
    THEN [programs |-> <<>>, run_configs |-> <<>>, recipes_tbl |-> <<RW, RX>>,
          gate_to_recipe |-> EmptyMap, program_stats |-> EmptyMap, program_id |-> 1,
          m4_cumulative |-> EmptyMap, total_rejects_count |-> 0,
          last_batch_time |-> EmptyMap]
    ELSE LET prev == AppliedUpTo(file, k - 1)
         IN  apply_program_assignment(file[k], AppliedAt(file, k), prev.programs,
                 prev.program_stats, prev.run_configs, prev.recipes_tbl,
                 prev.gate_to_recipe)

\* The delay the worker waits on configuration `index` (0-based).
DelayOn(file, index) == IF Len(file) > 1 THEN NextDelay(file, index) ELSE INF

\* The times since the last switch at which the loop checks: just before,
\* at and just after the delay; any two for a delay that never comes.
CycleElapsed(file, index) ==
    IF Len(file) > 1
    THEN {DelayOn(file, index) - 1, DelayOn(file, index), DelayOn(file, index) + 1}
    ELSE {TicksPerMinute, LoopBackDelay}

\* The worker is on configuration `index` of its list, no batch so far in
\* any program; up to MaxCycleBatches batches completed during the last
\* sleep, and this iteration has just polled them.
InitCycle ==
    /\ pieces_db = <<>>
    /\ \E file \in CycleFiles :
       \E index \in 0 .. Len(file) - 1 :
       \E e \in CycleElapsed(file, index) :
          LET a == AppliedUpTo(file, index + 1)
          IN  /\ assignments_json = file
              /\ program_assignments = file
              /\ current_program_index = index
              /\ last_program_switch = AppliedAt(file, index + 1)
              /\ next_program_switch_delay = DelayOn(file, index)
              /\ now = AppliedAt(file, index + 1) + e
              /\ programs = a.programs
              /\ program_stats = a.program_stats
              /\ run_configs = a.run_configs
              /\ recipes_tbl = a.recipes_tbl
              /\ gate_to_recipe = a.gate_to_recipe
              /\ program_id = a.program_id
              /\ \E n \in 0 .. MaxCycleBatches :
                    \E f \in [1 .. n -> (Gates \ {0}) \X BatchKinds] :
                       batch_completions =
                           [i \in 1 .. n |->
                               BatchRow(i, f[i][1], f[i][2][1], f[i][2][2], now - 1,
                                        a.program_id,
                                        Get(a.gate_to_recipe, f[i][1], NULL))]
    /\ recipes = [i \in 1 .. Len(recipes_tbl) |-> from_db_row(i, recipes_tbl[i])]
    /\ recipe_stats = EmptyMap
    /\ kpi_minute_recipes = <<>>
    /\ kpi_minute_combined = <<>>
    /\ kpi_totals = <<>>
    /\ last_processed_time = now
    /\ last_batch_id_processed = Len(batch_completions)
    /\ current_minute = NULL
    /\ minute_accumulator = <<>>
    /\ m4_cumulative = EmptyMap
    /\ total_rejects_count = 0
    /\ pieces_processed = 0
    /\ batches_detected = 0
    /\ last_minute_check = MinuteBucket(now)
    /\ polled_pieces = <<>>
    /\ completed_batches = batch_completions
    /\ slept = 0
    /\ pc = "batches"
    /\ last_batch_time = EmptyMap
    /\ gate_dwell_times = <<>>
    /\ gate_dwell_accumulators = EmptyMap
    /\ reset_requests = <<>>
    /\ ImportIdle
    /\ ClientIdle

\* The rest of that iteration.
NextCycle ==
    \/ ProcessCompletedBatch
    \/ MinuteRollover
    \/ CheckAndSwitchProgram

SpecCycle == InitCycle /\ [][NextCycle]_vars

\* C39: program cycling.  A switch (a new config is applied) happens only
\* in the switch check of an iteration, after which the iteration sleeps;
\* it advances the configuration index by exactly 1 modulo the number N of
\* configurations, and only when the time since the last switch is at least
\* the configured delay.  With exactly one configuration the delay is
\* infinite and no step switches.
C39_ProgramCycling ==
    [][/\ (pc # "load" /\ (Len(run_configs') # Len(run_configs)
                             \/ current_program_index' # current_program_index
                             \/ program_id' # program_id))
          => /\ pc = "switch"
             /\ pc' = "sleep"
             /\ Len(run_configs') = Len(run_configs) + 1
             /\ current_program_index' =
                   (current_program_index + 1) % Len(program_assignments)
             /\ now - last_program_switch >= next_program_switch_delay
             /\ Len(program_assignments) > 1
       /\ (pc # "init" /\ pc # "recover" /\ pc # "load"
             /\ Len(program_assignments) = 1)
          => /\ next_program_switch_delay = INF
             /\ run_configs' = run_configs
             /\ current_program_index' = 0]_vars

\* A switch has wrapped around: the worker was on the last of three
\* configurations and is now on the first again, on a new program.
C39_Witness ==
    /\ Len(program_assignments) = 3
    /\ current_program_index = 0
    /\ Len(run_configs) = 4
    /\ program_id = 4
    /\ next_program_switch_delay = TicksPerMinute
    /\ pc = "sleep"

\* ------------------------------------------------- the machine-state client
MaxWaitPolls == 3
MachineStates ==
    [state : {"idle", "running"}, activeRecipes : {<<>>, <<RW>>}]

\* MachineStateClient.get_state(): what it returns and self.last_state
\* afterwards.  A response is cached before it is returned; on a request
\* error the cached state is returned.
get_state(ok, backend, last) ==
    IF ok THEN [state |-> <<backend>>, last_state |-> <<backend>>]
    ELSE [state |-> last, last_state |-> last]

\* wait_for_state_change(): the test of one poll, made after get_state() has
\* returned, between its result and self.last_state as it is then.
StateChanged(current_state, last) ==
    /\ current_state # <<>>
    /\ last # <<>>
    /\ \/ current_state[1].state # last[1].state
       \/ current_state[1].activeRecipes # last[1].activeRecipes

\* The machine changes its state or its active recipes at the backend.
BackendChange ==
    /\ wait_result.done = FALSE
    /\ \E s \in MachineStates :
          /\ s # machine_state
          /\ machine_state' = s
    /\ UNCHANGED <<last_state, wait_timeout, wait_polls, wait_result>>
    /\ UNCHANGED import_vars
    /\ UNCHANGED dwell_vars
    /\ UNCHANGED reset_requests
    /\ UNCHANGED <<now, pieces_db, batch_completions, recipes_tbl, programs,
                   program_stats, recipe_stats, run_configs, kpi_minute_recipes,
                   kpi_minute_combined, kpi_totals, recipes, gate_to_recipe,
                   program_id, assignments_json, program_assignments,
                   current_program_index, last_program_switch,
                   next_program_switch_delay, last_processed_time,
                   last_batch_id_processed, current_minute, minute_accumulator,
                   m4_cumulative, total_rejects_count, pieces_processed,
                   batches_detected, last_minute_check, polled_pieces,
                   completed_batches, slept, pc>>

\* wait_for_state_change(): one turn of its loop, a poll that succeeds or
\* fails, the test, and the sleep of poll_interval when it does not return.
WaitPoll ==
    /\ wait_result.done = FALSE
    /\ wait_polls < wait_timeout
    /\ \E ok \in BOOLEAN :
          LET got == get_state(ok, machine_state, last_state)
          IN  /\ last_state' = got.last_state
              /\ wait_result' = IF StateChanged(got.state, got.last_state)
                                THEN [done |-> TRUE, value |-> got.state]
                                ELSE wait_result
    /\ wait_polls' = wait_polls + 1
    /\ UNCHANGED <<machine_state, wait_timeout>>
    /\ UNCHANGED import_vars
    /\ UNCHANGED dwell_vars
    /\ UNCHANGED reset_requests
    /\ UNCHANGED <<now, pieces_db, batch_completions, recipes_tbl, programs,
                   program_stats, recipe_stats, run_configs, kpi_minute_recipes,
                   kpi_minute_combined, kpi_totals, recipes, gate_to_recipe,
                   program_id, assignments_json, program_assignments,
                   current_program_index, last_program_switch,
                   next_program_switch_delay, last_processed_time,
                   last_batch_id_processed, current_minute, minute_accumulator,
                   m4_cumulative, total_rejects_count, pieces_processed,
                   batches_detected, last_minute_check, polled_pieces,
                   completed_batches, slept, pc>>

\* wait_for_state_change(): the timeout has passed, `return None`.
WaitTimeout ==
    /\ wait_result.done = FALSE
    /\ wait_polls >= wait_timeout
    /\ wait_result' = [done |-> TRUE, value |-> <<>>]
    /\ UNCHANGED <<machine_state, last_state, wait_timeout, wait_polls>>
    /\ UNCHANGED import_vars
    /\ UNCHANGED dwell_vars
    /\ UNCHANGED reset_requests
    /\ UNCHANGED <<now, pieces_db, batch_completions, recipes_tbl, programs,
                   program_stats, recipe_stats, run_configs, kpi_minute_recipes,
                   kpi_minute_combined, kpi_totals, recipes, gate_to_recipe,
                   program_id, assignments_json, program_assignments,
                   current_program_index, last_program_switch,
                   next_program_switch_delay, last_processed_time,
                   last_batch_id_processed, current_minute, minute_accumulator,
                   m4_cumulative, total_rejects_count, pieces_processed,
                   batches_detected, last_minute_check, polled_pieces,
                   completed_batches, slept, pc>>

\* A client that has just polled the machine's state (or never polled:
\* last_state None) calls wait_for_state_change with a timeout of
\* 1 .. MaxWaitPolls polls.
InitClient ==
    /\ WorkerStopped
    /\ ImportIdle
    /\ machine_state \in MachineStates
    /\ last_state \in {<<>>, <<machine_state>>}
    /\ wait_timeout \in 1 .. MaxWaitPolls
    /\ wait_polls = 0
    /\ wait_result = [done |-> FALSE, value |-> <<>>]

NextClient ==
    \/ BackendChange
    \/ WaitPoll
    \/ WaitTimeout

SpecClient == InitClient /\ [][NextClient]_vars

\* C40: machine-state change detection.  A poll of wait_for_state_change
\* that observes a state, or an active-recipe list, different from the state
\* the client knew before that poll makes the call return the observed
\* state at once; and the call returns None only with the polls of the
\* timeout used up.
C40_StateChangeDetected ==
    [][/\ (wait_polls' = wait_polls + 1
           /\ last_state # <<>>
           /\ last_state' # last_state)
          => wait_result' = [done |-> TRUE, value |-> last_state']
       /\ (wait_result.done = FALSE /\ wait_result' = [done |-> TRUE, value |-> <<>>])
          => wait_polls >= wait_timeout]_vars

====
